---- MODULE Spec2Model ----
(***************************************************************************)
(* Clip-processing and sequencing engine of Clippy (src/clippy/pipeline.py) *)
(* as a state machine: the process supervisor (_ACTIVE_PROCS,              *)
(* SHUTDOWN_EVENT, request_shutdown), the cancellable runner                *)
(* (run_proc_cancellable), the retry policy (_retry), the clip preparation  *)
(* pool (_prep under ThreadPoolExecutor), the transition asset cache        *)
(* (_ensure_transcoded) and the sequencing loop of write_concat_file,       *)
(* followed by stage_two.                                                   *)
(*                                                                          *)
(* Thread 0 is the caller's thread (stage_one / write_concat_file /         *)
(* stage_two); threads 1..MaxWorkers are the pool's workers; the callers of *)
(* request_shutdown are separate threads.  One step of a thread is one      *)
(* access to state shared with other threads or with a child process.       *)
(***************************************************************************)
EXTENDS Integers, Sequences, FiniteSets, TLC

\* ------------------------------------------------------------------ bounds
MaxWorkers == 2      \* largest max_concurrency of the pool
NumClips == 2        \* clips of the compilation being built
NumCallers == 2      \* calls of request_shutdown, each by a thread of its own
MaxAttempts == 3     \* largest `attempts` given to _retry in RetrySpec
MaxRows == 3         \* clip rows given to create_compilations_from, and clip ids
MaxViews == 1        \* largest view count of a row, largest reactionThreshold
MaxPerComp == 2      \* largest amountOfClips
MaxComps == 2        \* largest amountOfCompilations
MaxCooldown == 1     \* largest transition_cooldown in SeqSpec
MaxNames == 3        \* longest base_names given to ensure_unique_names
MaxProgress == 1     \* progress lines a reader handles per encode in StatusSpec

\* ------------------------------------------------------- program constants
DefaultAttempts == 3 \* _retry(fn, attempts=3, ...)

Main == 0
Workers == 1..MaxWorkers
Threads == 0..MaxWorkers
Callers == 1..NumCallers
Clips == 1..NumClips

\* Handles of child processes.  A handle is a slot; a slot is reused once no
\* thread holds the handle any more and the child is gone.
MaxProcs == (MaxWorkers + 1) * (NumCallers + 1)
Pids == 1..MaxProcs

VARIABLES
    cfg,              \* the configuration the run was started with (never changes)
    SHUTDOWN_EVENT,   \* threading.Event: BOOLEAN
    ACTIVE_PROCS,     \* _ACTIVE_PROCS: set of handles
    child,            \* handle -> "none" | "run" | "ok" (exit 0) | "err" (exit # 0)
                      \*   | "gone" (exited, no thread will read its exit code)
    termSent,         \* handles whose child was sent terminate()
    killSent,         \* handles whose child was sent kill()
    pc,               \* thread -> position
    proc,             \* thread -> handle it holds (0: none)
    site,             \* thread -> call site of the runner it is in
    ret,              \* thread -> result of the last runner call
    att,              \* thread -> [i, last, calls, res]: the _retry call it is in
    clip,             \* worker -> clip it prepares (0: none)
    spc,              \* caller of request_shutdown -> position
    procs,            \* caller -> `procs`, the snapshot list of terminate_all_processes
    todo,             \* caller -> index in `procs` its current loop is at
    ncalls,           \* caller -> 1 once its call of request_shutdown has returned
    queue,            \* tasks submitted to the pool and not yet taken
    fut,              \* clip -> state of its future
    results,          \* clip -> "none" | "ok" | "fail"  (results[idx])
    files,            \* clip -> files in its cache directory
    lines,            \* `lines` of write_concat_file
    recent,           \* _recent_transitions
    k,                \* position of the sequencing loop in `results`
    et,               \* [name, cont, audio]: the _ensure_transcoded call in progress
    dst,              \* asset names with a built copy in cache/_trans
    manifest,         \* asset name -> "none" | <<silent, aud_norm>>
    concat,           \* the concat script cache/comp0: [written, lines]
    sumIdx,           \* _sum_concat_duration: line being probed
    prev,             \* how the last direct call of _ensure_transcoded went (CacheSpec)
    rt,               \* the _retry call of RetrySpec
    cc,               \* the create_compilations_from call of CompSpec
    un,               \* the ensure_unique_names call of UniqueSpec
    fz,               \* the finalize_outputs call of FinalizeSpec
    sb                \* the _prep call of StatusSpec: its status line and readers

supVars == <<SHUTDOWN_EVENT, ACTIVE_PROCS, child, termSent, killSent>>
thrVars == <<pc, proc, site, ret, att, clip>>
callVars == <<spc, procs, todo, ncalls>>
poolVars == <<queue, fut, results, files>>
seqVars == <<lines, recent, k, et, dst, manifest, concat, sumIdx, prev>>
vars == <<cfg, supVars, thrVars, callVars, poolVars, seqVars, rt, cc, un, fz, sb>>

\* ----------------------------------------------------------- child processes

\* Handles some thread still holds: a runner's `proc`, a snapshot `procs`.
Range(f) == {f[x] : x \in DOMAIN f}

Referenced(pr, ps) ==
    {pr[t] : t \in Threads} \cup UNION {Range(ps[s]) : s \in Callers}

\* The slot a new Popen object gets.
FreshPid ==
    CHOOSE p \in Pids :
        /\ child[p] = "none" /\ p \notin Referenced(proc, procs)
        /\ \A q \in Pids :
               (child[q] = "none" /\ q \notin Referenced(proc, procs)) => p <= q

HasFreshPid == \E p \in Pids : child[p] = "none" /\ p \notin Referenced(proc, procs)

\* Dropping the last reference to a handle whose child has exited frees the
\* slot.  A handle that only snapshots still hold is read by p.poll() alone,
\* which tells a running child from an exited one and nothing more.
Keep(p, pr, ps) == p \in Referenced(pr, ps) \/ child[p] = "run"

Held(p, pr) == p \in {pr[t] : t \in Threads} \/ child[p] = "run"

Collect(ch, pr, ps) ==
    /\ child' = [p \in Pids |-> IF ~Keep(p, pr, ps) THEN "none"
                                ELSE IF ~Held(p, pr) THEN "gone" ELSE ch[p]]
    /\ termSent' = {p \in termSent : Held(p, pr)}
    /\ killSent' = {p \in killSent : Held(p, pr)}

\* Which executable a call site runs, and whether it is installed.
ExePresent(st) ==
    IF st = "download" THEN cfg.ytdl
    ELSE IF st \in {"aprobe", "durprobe"} THEN cfg.ffprobe
    ELSE cfg.ffmpeg

\* A running child exits on its own, with exit code 0 or not.
ChildExit(p) ==
    /\ child[p] = "run"
    /\ \E c \in {"ok", "err"} : child' = [child EXCEPT ![p] = c]
    /\ UNCHANGED <<cfg, SHUTDOWN_EVENT, ACTIVE_PROCS, termSent, killSent,
                   thrVars, callVars, poolVars, seqVars, rt, cc, un, fz, sb>>

\* ------------------------------------------------------- process supervisor

\* _unregister_proc uses set.discard, which never raises.
UnregisterRaisesKeyError(S, p) == p \notin S
UnregisterRaises(S, p) == FALSE

Perms(S) ==
    {f \in [1..Cardinality(S) -> S] : \A a, b \in 1..Cardinality(S) : f[a] = f[b] => a = b}

\* request_shutdown: SHUTDOWN_EVENT.set()
RequestShutdown(s) ==
    /\ s <= cfg.callers /\ spc[s] = "idle" /\ ncalls[s] = 0
    /\ SHUTDOWN_EVENT' = TRUE
    /\ spc' = [spc EXCEPT ![s] = "ta_snap"]
    /\ UNCHANGED <<cfg, ACTIVE_PROCS, child, termSent, killSent, thrVars,
                   procs, todo, ncalls, poolVars, seqVars, rt, cc, un, fz, sb>>

\* terminate_all_processes: procs = list(_ACTIVE_PROCS), under the lock
TerminateSnapshot(s) ==
    /\ spc[s] = "ta_snap"
    /\ \E order \in Perms(ACTIVE_PROCS) :
           procs' = [procs EXCEPT ![s] = order]
    /\ todo' = [todo EXCEPT ![s] = 1]
    /\ spc' = [spc EXCEPT ![s] = "ta_term"]
    /\ UNCHANGED <<cfg, supVars, thrVars, ncalls, poolVars, seqVars, rt, cc, un, fz, sb>>

\* a first loop that sends no terminate signal
TerminateTermSendsNothing(s) ==
    /\ spc[s] = "ta_term"
    /\ IF todo[s] <= Len(procs[s])
       THEN todo' = [todo EXCEPT ![s] = @ + 1] /\ UNCHANGED spc
       ELSE /\ spc' = [spc EXCEPT ![s] = "ta_wait"]
            /\ todo' = [todo EXCEPT ![s] = 1]
    /\ UNCHANGED <<cfg, supVars, thrVars, procs, ncalls, poolVars, seqVars, rt, cc, un, fz, sb>>

\* first loop: if p.poll() is None: p.terminate(); then t0 = time.time()
TerminateTerm(s) ==
    /\ spc[s] = "ta_term"
    /\ IF todo[s] <= Len(procs[s])
       THEN LET p == procs[s][todo[s]] IN
            /\ termSent' = IF child[p] = "run" THEN termSent \cup {p} ELSE termSent
            /\ todo' = [todo EXCEPT ![s] = @ + 1]
            /\ UNCHANGED spc
       ELSE /\ spc' = [spc EXCEPT ![s] = "ta_wait"]
            /\ todo' = [todo EXCEPT ![s] = 1]
            /\ UNCHANGED termSent
    /\ UNCHANGED <<cfg, SHUTDOWN_EVENT, ACTIVE_PROCS, child, killSent, thrVars,
                   procs, ncalls, poolVars, seqVars, rt, cc, un, fz, sb>>

\* second loop, one handle: p.wait(timeout=remaining) returns when the child
\* has exited or when what is left of the budget (possibly nothing) has
\* run out; kill if still alive; finally _unregister_proc(p).  An exception
\* of the finally clause leaves the loop (request_shutdown swallows it).
TerminateWait(s) ==
    /\ spc[s] = "ta_wait"
    /\ IF todo[s] <= Len(procs[s])
       THEN LET p == procs[s][todo[s]] IN
            /\ child' = [child EXCEPT ![p] = IF @ = "run" THEN "err" ELSE @]
            /\ killSent' = IF child[p] = "run" THEN killSent \cup {p} ELSE killSent
            /\ IF UnregisterRaises(ACTIVE_PROCS, p)
               THEN /\ spc' = [spc EXCEPT ![s] = "ta_ret"]
                    /\ UNCHANGED <<ACTIVE_PROCS, todo>>
               ELSE /\ ACTIVE_PROCS' = ACTIVE_PROCS \ {p}
                    /\ todo' = [todo EXCEPT ![s] = @ + 1]
                    /\ UNCHANGED spc
       ELSE /\ spc' = [spc EXCEPT ![s] = "ta_ret"]
            /\ UNCHANGED <<ACTIVE_PROCS, child, killSent, todo>>
    /\ UNCHANGED <<cfg, SHUTDOWN_EVENT, termSent, thrVars, procs, ncalls,
                   poolVars, seqVars, rt, cc, un, fz, sb>>

\* request_shutdown returns; the snapshot goes out of scope
ShutdownReturn(s) ==
    /\ spc[s] = "ta_ret"
    /\ spc' = [spc EXCEPT ![s] = "idle"]
    /\ ncalls' = [ncalls EXCEPT ![s] = @ + 1]
    /\ procs' = [procs EXCEPT ![s] = <<>>]
    /\ todo' = [todo EXCEPT ![s] = 1]
    /\ Collect(child, proc, [procs EXCEPT ![s] = <<>>])
    /\ UNCHANGED <<cfg, SHUTDOWN_EVENT, ACTIVE_PROCS, thrVars, poolVars, seqVars, rt, cc, un, fz, sb>>

\* ------------------------------------------------ cancellable process runner
\* run_proc_cancellable, called by thread t at call site site[t].

\* subprocess.Popen(args): FileNotFoundError when the executable is missing
\* (raised before anything is registered), a new child otherwise.
RunnerPopen(t) ==
    /\ pc[t] = "rp_popen"
    /\ IF ExePresent(site[t])
       THEN /\ HasFreshPid
            /\ child' = [child EXCEPT ![FreshPid] = "run"]
            /\ proc' = [proc EXCEPT ![t] = FreshPid]
            /\ pc' = [pc EXCEPT ![t] = "rp_reg"]
            /\ UNCHANGED ret
       ELSE /\ ret' = [ret EXCEPT ![t] = "fnf"]
            /\ pc' = [pc EXCEPT ![t] = "rp_ret"]
            /\ UNCHANGED <<child, proc>>
    /\ UNCHANGED <<cfg, SHUTDOWN_EVENT, ACTIVE_PROCS, termSent, killSent, site,
                   att, clip, callVars, poolVars, seqVars, rt, cc, un, fz, sb>>

\* _register_proc(proc)
RunnerRegister(t) ==
    /\ pc[t] = "rp_reg"
    /\ ACTIVE_PROCS' = ACTIVE_PROCS \cup {proc[t]}
    /\ pc' = [pc EXCEPT ![t] = "rp_loop"]
    /\ UNCHANGED <<cfg, SHUTDOWN_EVENT, child, termSent, killSent, proc, site,
                   ret, att, clip, callVars, poolVars, seqVars, rt, cc, un, fz, sb>>

\* while True: if SHUTDOWN_EVENT.is_set(): ...
RunnerCheck(t) ==
    /\ pc[t] = "rp_loop"
    /\ pc' = [pc EXCEPT ![t] = IF SHUTDOWN_EVENT THEN "rp_int" ELSE "rp_poll"]
    /\ UNCHANGED <<cfg, supVars, proc, site, ret, att, clip, callVars,
                   poolVars, seqVars, rt, cc, un, fz, sb>>

\* rc = proc.poll(): return (rc, stderr) when the child has exited, else sleep
RunnerPoll(t) ==
    /\ pc[t] = "rp_poll"
    /\ IF child[proc[t]] = "run"
       THEN /\ pc' = [pc EXCEPT ![t] = "rp_loop"]
            /\ UNCHANGED ret
       ELSE /\ ret' = [ret EXCEPT ![t] = IF child[proc[t]] = "ok" THEN "rc0" ELSE "rc1"]
            /\ pc' = [pc EXCEPT ![t] = "rp_fin"]
    /\ UNCHANGED <<cfg, supVars, proc, site, att, clip, callVars, poolVars,
                   seqVars, rt, cc, un, fz, sb>>

\* shutdown seen: if proc.poll() is None: proc.terminate()
RunnerInterrupt(t) ==
    /\ pc[t] = "rp_int"
    /\ IF child[proc[t]] = "run"
       THEN /\ termSent' = termSent \cup {proc[t]}
            /\ pc' = [pc EXCEPT ![t] = "rp_grace"]
            /\ UNCHANGED ret
       ELSE /\ ret' = [ret EXCEPT ![t] = "interrupted"]
            /\ pc' = [pc EXCEPT ![t] = "rp_fin"]
            /\ UNCHANGED termSent
    /\ UNCHANGED <<cfg, SHUTDOWN_EVENT, ACTIVE_PROCS, child, killSent, proc,
                   site, att, clip, callVars, poolVars, seqVars, rt, cc, un, fz, sb>>

\* for _ in range(10): break when the child has exited, else sleep(0.05).
\* The loop ends after at most ten polls, whatever the child does; then
\* if proc.poll() is None: proc.kill(); return 1, b"interrupted"
RunnerKillNever(t) ==
    /\ pc[t] = "rp_grace"
    /\ ret' = [ret EXCEPT ![t] = "interrupted"]
    /\ pc' = [pc EXCEPT ![t] = "rp_fin"]
    /\ UNCHANGED <<cfg, supVars, proc, site, att, clip, callVars, poolVars,
                   seqVars, rt, cc, un, fz, sb>>

RunnerKill(t) ==
    /\ pc[t] = "rp_grace"
    /\ child' = [child EXCEPT ![proc[t]] = IF @ = "run" THEN "err" ELSE @]
    /\ killSent' = IF child[proc[t]] = "run" THEN killSent \cup {proc[t]} ELSE killSent
    /\ ret' = [ret EXCEPT ![t] = "interrupted"]
    /\ pc' = [pc EXCEPT ![t] = "rp_fin"]
    /\ UNCHANGED <<cfg, SHUTDOWN_EVENT, ACTIVE_PROCS, termSent, proc, site, att,
                   clip, callVars, poolVars, seqVars, rt, cc, un, fz, sb>>

\* finally: stop the reader, _unregister_proc(proc); the call returns
RunnerFinallyKeepsHandle(t) ==
    /\ pc[t] = "rp_fin"
    /\ proc' = [proc EXCEPT ![t] = 0]
    /\ pc' = [pc EXCEPT ![t] = "rp_ret"]
    /\ Collect(child, [proc EXCEPT ![t] = 0], procs)
    /\ UNCHANGED <<cfg, SHUTDOWN_EVENT, ACTIVE_PROCS, site, ret, att, clip,
                   callVars, poolVars, seqVars, rt, cc, un, fz, sb>>

RunnerFinally(t) ==
    /\ pc[t] = "rp_fin"
    /\ ACTIVE_PROCS' = ACTIVE_PROCS \ {proc[t]}
    /\ proc' = [proc EXCEPT ![t] = 0]
    /\ pc' = [pc EXCEPT ![t] = "rp_ret"]
    /\ Collect(child, [proc EXCEPT ![t] = 0], procs)
    /\ UNCHANGED <<cfg, SHUTDOWN_EVENT, site, ret, att, clip, callVars,
                   poolVars, seqVars, rt, cc, un, fz, sb>>

\* ------------------------------------------------------------ duration probe
\* _ffprobe_duration: subprocess.check_output([ffprobe, ...]); every
\* exception gives None.  The child is not registered and is waited for.
ProbeSpawn(t) ==
    /\ pc[t] = "dp_spawn"
    /\ IF cfg.ffprobe
       THEN /\ HasFreshPid
            /\ child' = [child EXCEPT ![FreshPid] = "run"]
            /\ proc' = [proc EXCEPT ![t] = FreshPid]
            /\ pc' = [pc EXCEPT ![t] = "dp_wait"]
       ELSE /\ pc' = [pc EXCEPT ![t] = "dp_ret"]
            /\ UNCHANGED <<child, proc>>
    /\ UNCHANGED <<cfg, SHUTDOWN_EVENT, ACTIVE_PROCS, termSent, killSent, site,
                   ret, att, clip, callVars, poolVars, seqVars, rt, cc, un, fz, sb>>

ProbeWait(t) ==
    /\ pc[t] = "dp_wait"
    /\ child[proc[t]] # "run"
    /\ proc' = [proc EXCEPT ![t] = 0]
    /\ pc' = [pc EXCEPT ![t] = "dp_ret"]
    /\ Collect(child, [proc EXCEPT ![t] = 0], procs)
    /\ UNCHANGED <<cfg, SHUTDOWN_EVENT, ACTIVE_PROCS, site, ret, att, clip,
                   callVars, poolVars, seqVars, rt, cc, un, fz, sb>>

\* --------------------------------------------------------------- retry policy
\* _retry(fn, attempts, backoff); rc values 0 (success), 1 (failure),
\* 2 (already satisfied); None is -1.
None == -1

\* for i in range(attempts): the loop is over
RetryExhausted(i, attempts) == i >= attempts

\* if SHUTDOWN_EVENT.is_set(): return 1
RetryAbortsNever(shut) == FALSE
RetryAborts(shut) == shut

\* return last if last is not None else 1
RetryFinal(last) == IF last = None THEN 1 ELSE last

\* if rc == 0 or rc == 2: return rc
RetryStopsOnSuccessOnly(rc) == rc = 0
RetryStops(rc) == rc = 0 \/ rc = 2

NewRetry == [i |-> 0, last |-> None, calls |-> 0, res |-> None]

\* fn returned rc inside the _retry call a: return it, or sleep and go on
AfterAttempt(a, rc) ==
    IF RetryStops(rc) THEN [a EXCEPT !.res = rc]
    ELSE [a EXCEPT !.i = @ + 1, !.last = rc]

\* ------------------------------------------------------- clip preparation pool
\* _prep(clip, pos) run by pool worker w.

\* the future of the worker's clip completes: "ok" = (clip, True),
\* "fail" = (clip, False); an exception left _prep: "fnf" = FileNotFoundError,
\* "exc" = any other
Finish(w, outcome) ==
    /\ fut' = [fut EXCEPT ![clip[w]] = outcome]
    /\ clip' = [clip EXCEPT ![w] = 0]
    /\ att' = [att EXCEPT ![w] = NewRetry]
    /\ pc' = [pc EXCEPT ![w] = "idle"]

\* an executor that starts a thread for every task, whatever max_workers
WorkerTakeUnbounded(w) ==
    /\ pc[w] \in {"idle", "none"} /\ queue # <<>>
    /\ clip' = [clip EXCEPT ![w] = Head(queue)]
    /\ queue' = Tail(queue)
    /\ fut' = [fut EXCEPT ![Head(queue)] = "running"]
    /\ pc' = [pc EXCEPT ![w] = "prep"]
    /\ UNCHANGED <<cfg, supVars, proc, site, ret, att, callVars, results, files,
                   seqVars, rt, cc, un, fz, sb>>

\* a pool thread takes the next submitted task; the executor has
\* max_workers threads
WorkerTake(w) ==
    /\ w <= cfg.workers
    /\ pc[w] = "idle" /\ queue # <<>>
    /\ clip' = [clip EXCEPT ![w] = Head(queue)]
    /\ queue' = Tail(queue)
    /\ fut' = [fut EXCEPT ![Head(queue)] = "running"]
    /\ pc' = [pc EXCEPT ![w] = "prep"]
    /\ UNCHANGED <<cfg, supVars, proc, site, ret, att, callVars, results, files,
                   seqVars, rt, cc, un, fz, sb>>

\* if SHUTDOWN_EVENT.is_set(): return clip, False
WorkerPrepCheck(w) ==
    /\ pc[w] = "prep"
    /\ IF SHUTDOWN_EVENT
       THEN Finish(w, "fail")
       ELSE /\ pc' = [pc EXCEPT ![w] = "avatar"]
            /\ UNCHANGED <<fut, clip, att>>
    /\ UNCHANGED <<cfg, supVars, proc, site, ret, callVars, queue, results,
                   files, seqVars, rt, cc, un, fz, sb>>

\* download_avatar(clip): its result is ignored. With avatar.png in the clip
\* directory nothing is fetched; else requests.get fetches the picture:
\* it or the image conversion may raise, which leaves _prep, a status >= 400
\* writes nothing, and otherwise avatar.png is written.
\* Then d_rc = _retry(download_clip)
WorkerAvatar(w) ==
    /\ pc[w] = "avatar"
    /\ \/ /\ "avatar" \notin files[clip[w]]
          /\ Finish(w, "exc")
          /\ UNCHANGED files
       \/ /\ pc' = [pc EXCEPT ![w] = "dl_top"]
          /\ att' = [att EXCEPT ![w] = NewRetry]
          /\ files' = [files EXCEPT ![clip[w]] =
                           IF cfg.avatarOk THEN @ \cup {"avatar"} ELSE @]
          /\ UNCHANGED <<fut, clip>>
    /\ UNCHANGED <<cfg, supVars, proc, site, ret, callVars, queue, results,
                   seqVars, rt, cc, un, fz, sb>>

\* One turn of the loop of _retry up to the first shared access of fn:
\* loop end, the shutdown check, then fn's test for the final file.
\* `next` is where fn goes on, `done` where _retry's caller goes on.
RetryTop(w, next, done) ==
    LET a == att[w] IN
    /\ IF RetryExhausted(a.i, DefaultAttempts)
       THEN /\ att' = [att EXCEPT ![w].res = RetryFinal(a.last)]
            /\ pc' = [pc EXCEPT ![w] = done]
       ELSE IF RetryAborts(SHUTDOWN_EVENT)
       THEN /\ att' = [att EXCEPT ![w].res = 1]
            /\ pc' = [pc EXCEPT ![w] = done]
       ELSE IF "final" \in files[clip[w]] /\ ~cfg.rebuild
       THEN /\ att' = [att EXCEPT ![w] = AfterAttempt([a EXCEPT !.calls = @ + 1], 2)]
            /\ pc' = [pc EXCEPT ![w] = done]
       ELSE /\ att' = [att EXCEPT ![w].calls = @ + 1]
            /\ pc' = [pc EXCEPT ![w] = next]

\* fn returned rc: _retry returns it or sleeps and loops
FnReturns(w, rc, top, done) ==
    /\ att' = [att EXCEPT ![w] = AfterAttempt(@, rc)]
    /\ pc' = [pc EXCEPT ![w] = IF RetryStops(rc) THEN done ELSE top]

WorkerDlTop(w) ==
    /\ pc[w] = "dl_top"
    /\ RetryTop(w, "dl_chk", "dl_done")
    /\ UNCHANGED <<cfg, supVars, proc, site, ret, clip, callVars, poolVars,
                   seqVars, rt, cc, un, fz, sb>>

\* download_clip: if SHUTDOWN_EVENT.is_set(): return 1; else run the downloader
WorkerDlCheck(w) ==
    /\ pc[w] = "dl_chk"
    /\ IF SHUTDOWN_EVENT
       THEN FnReturns(w, 1, "dl_top", "dl_done") /\ UNCHANGED site
       ELSE /\ site' = [site EXCEPT ![w] = "download"]
            /\ pc' = [pc EXCEPT ![w] = "rp_popen"]
            /\ UNCHANGED att
    /\ UNCHANGED <<cfg, supVars, proc, ret, clip, callVars, poolVars, seqVars, rt, cc, un, fz, sb>>

\* download_clip after run_proc_cancellable: FileNotFoundError propagates
\* through _retry and _prep; rc != 0 gives 1; rc == 0 gives 0 (clip.mp4 written)
WorkerDlRet(w) ==
    /\ pc[w] = "rp_ret" /\ site[w] = "download"
    /\ IF ret[w] = "fnf"
       THEN Finish(w, "fnf") /\ UNCHANGED files
       ELSE IF ret[w] = "rc0"
       THEN /\ FnReturns(w, 0, "dl_top", "dl_done")
            /\ files' = [files EXCEPT ![clip[w]] = @ \cup {"clip"}]
            /\ UNCHANGED <<fut, clip>>
       ELSE /\ FnReturns(w, 1, "dl_top", "dl_done")
            /\ UNCHANGED <<fut, clip, files>>
    /\ UNCHANGED <<cfg, supVars, proc, site, ret, callVars, queue, results,
                   seqVars, rt, cc, un, fz, sb>>

\* if d_rc == 1: FAILED (download); if SHUTDOWN_EVENT.is_set(): return clip, False;
\* else p_rc = _retry(process_clip)
WorkerDlDone(w) ==
    /\ pc[w] = "dl_done"
    /\ IF att[w].res = 1 \/ SHUTDOWN_EVENT
       THEN Finish(w, "fail")
       ELSE /\ att' = [att EXCEPT ![w] = NewRetry]
            /\ pc' = [pc EXCEPT ![w] = "pr_top"]
            /\ UNCHANGED <<fut, clip>>
    /\ UNCHANGED <<cfg, supVars, proc, site, ret, callVars, queue, results,
                   files, seqVars, rt, cc, un, fz, sb>>

WorkerPrTop(w) ==
    /\ pc[w] = "pr_top"
    /\ RetryTop(w, "pr_chk", "pr_done")
    /\ UNCHANGED <<cfg, supVars, proc, site, ret, clip, callVars, poolVars,
                   seqVars, rt, cc, un, fz, sb>>

\* process_clip: if SHUTDOWN_EVENT.is_set(): return 1; else probe the duration
WorkerPrCheck(w) ==
    /\ pc[w] = "pr_chk"
    /\ IF SHUTDOWN_EVENT
       THEN FnReturns(w, 1, "pr_top", "pr_done") /\ UNCHANGED site
       ELSE /\ site' = [site EXCEPT ![w] = "norm"]
            /\ pc' = [pc EXCEPT ![w] = "dp_spawn"]
            /\ UNCHANGED att
    /\ UNCHANGED <<cfg, supVars, proc, ret, clip, callVars, poolVars, seqVars, rt, cc, un, fz, sb>>

\* _dur is known (or None): run the normalize encode
WorkerProbed(w) ==
    /\ pc[w] = "dp_ret" /\ w \in Workers
    /\ pc' = [pc EXCEPT ![w] = "rp_popen"]
    /\ UNCHANGED <<cfg, supVars, proc, site, ret, att, clip, callVars, poolVars,
                   seqVars, rt, cc, un, fz, sb>>

\* process_clip after the normalize encode: rc != 0 gives 1 (the encoder
\* exits non-zero when its input clip.mp4 is missing); else clip.mp4 is
\* removed and, without overlay, os.replace makes normalized.mp4 the final
\* file or raises, which is swallowed; then normalized.mp4 is removed and 0
\* is returned
WorkerNormRet(w) ==
    /\ pc[w] = "rp_ret" /\ site[w] = "norm"
    /\ IF ret[w] = "fnf"
       THEN Finish(w, "fnf") /\ UNCHANGED files
       ELSE IF ret[w] # "rc0" \/ "clip" \notin files[clip[w]]
       THEN /\ FnReturns(w, 1, "pr_top", "pr_done")
            /\ UNCHANGED <<fut, clip, files>>
       ELSE IF cfg.overlay
       THEN /\ files' = [files EXCEPT ![clip[w]] = (@ \ {"clip"}) \cup {"norm"}]
            /\ pc' = [pc EXCEPT ![w] = "ov_chk"]
            /\ UNCHANGED <<fut, clip, att>>
       ELSE /\ \E replaced \in BOOLEAN :
                   files' = [files EXCEPT ![clip[w]] =
                                (@ \ {"clip", "norm"})
                                    \cup (IF replaced THEN {"final"} ELSE {})]
            /\ FnReturns(w, 0, "pr_top", "pr_done")
            /\ UNCHANGED <<fut, clip>>
    /\ UNCHANGED <<cfg, supVars, proc, site, ret, callVars, queue, results,
                   seqVars, rt, cc, un, fz, sb>>

\* overlay enabled: if SHUTDOWN_EVENT.is_set(): return 1; else run the overlay encode
WorkerOvCheck(w) ==
    /\ pc[w] = "ov_chk"
    /\ IF SHUTDOWN_EVENT
       THEN FnReturns(w, 1, "pr_top", "pr_done") /\ UNCHANGED site
       ELSE /\ site' = [site EXCEPT ![w] = "overlay"]
            /\ pc' = [pc EXCEPT ![w] = "rp_popen"]
            /\ UNCHANGED att
    /\ UNCHANGED <<cfg, supVars, proc, ret, clip, callVars, poolVars, seqVars, rt, cc, un, fz, sb>>

\* process_clip after the overlay encode: rc != 0 gives 1; else the final file
\* exists and normalized.mp4 is removed
WorkerOvRet(w) ==
    /\ pc[w] = "rp_ret" /\ site[w] = "overlay"
    /\ IF ret[w] = "fnf"
       THEN Finish(w, "fnf") /\ UNCHANGED files
       ELSE IF ret[w] # "rc0"
       THEN /\ FnReturns(w, 1, "pr_top", "pr_done")
            /\ UNCHANGED <<fut, clip, files>>
       ELSE /\ files' = [files EXCEPT ![clip[w]] = (@ \ {"norm"}) \cup {"final"}]
            /\ FnReturns(w, 0, "pr_top", "pr_done")
            /\ UNCHANGED <<fut, clip>>
    /\ UNCHANGED <<cfg, supVars, proc, site, ret, callVars, queue, results,
                   seqVars, rt, cc, un, fz, sb>>

\* if p_rc == 1: FAILED (process), return clip, False; else Done, return clip, True
WorkerPrDone(w) ==
    /\ pc[w] = "pr_done"
    /\ Finish(w, IF att[w].res = 1 THEN "fail" ELSE "ok")
    /\ UNCHANGED <<cfg, supVars, proc, site, ret, callVars, queue, results,
                   files, seqVars, rt, cc, un, fz, sb>>

\* the text of the last _update_line(pos, ...) of the worker's clip when
\* _prep ends from the worker's present position
LastStatus(w) ==
    IF pc[w] = "pr_done"
    THEN (IF att[w].res = 1 THEN "FAILED (process)" ELSE "Done")
    ELSE IF pc[w] = "dl_done"
    THEN (IF att[w].res = 1 THEN "FAILED (download)" ELSE "Downloading clip")
    ELSE IF pc[w] \in {"prep", "avatar"} THEN "Avatar downloading"
    ELSE IF pc[w] = "rp_ret" /\ site[w] = "download" THEN "Downloading clip"
    ELSE "Normalizing"

\* ------------------------------------------------------ transition asset cache
\* _ensure_transcoded(name), called by the main thread from _append_trans_file.
StaticName == "static"
NoEt == [name |-> "", cont |-> "", audio |-> TRUE]
NoEntry == <<>>

NoPrev ==
    [name |-> "", how |-> "", ok |-> FALSE, audio |-> TRUE, silent |-> FALSE,
     audnorm |-> FALSE, was |-> NoEntry, built |-> FALSE]

\* force_silent_audio = bool(name == _cfg_static and _silence_static)
DesiredSilent(name) == name = StaticName /\ cfg.silenceStatic
\* desired_audnorm = (not desired_silent) and bool(_aud_norm)
DesiredAudnorm(name) == ~DesiredSilent(name) /\ cfg.audNorm

\* a reuse test that never reuses a built copy
CacheHitNever(name) == FALSE

\* a reuse test that compares only the silent field of the entry
CacheHitIgnoresAudnorm(name) ==
    /\ name \in dst /\ ~cfg.rebuildTrans
    /\ IF manifest[name] # NoEntry
       THEN manifest[name][1] = DesiredSilent(name)
       ELSE ~DesiredSilent(name) /\ ~DesiredAudnorm(name)

\* the reuse test: a built copy exists, rebuild is not forced and the manifest
\* entry matches; with no entry, only when nothing is desired
CacheHit(name) ==
    /\ name \in dst /\ ~cfg.rebuildTrans
    /\ IF manifest[name] # NoEntry
       THEN manifest[name] = <<DesiredSilent(name), DesiredAudnorm(name)>>
       ELSE ~DesiredSilent(name) /\ ~DesiredAudnorm(name)

AssetLine(name) == [t |-> name, c |-> 0]
ClipLine(c) == [t |-> "clip", c |-> c]

CallEt(name, cont) ==
    /\ et' = [name |-> name, cont |-> cont, audio |-> TRUE]
    /\ pc' = [pc EXCEPT ![Main] = "et_start"]

Goto(label) ==
    /\ et' = NoEt
    /\ pc' = [pc EXCEPT ![Main] = label]

NextClip ==
    /\ k' = k + 1
    /\ Goto("seq")

\* _append_trans_file after _ensure_transcoded returned (ok: a path, else None),
\* and the statement of write_concat_file that follows the call
EtOutcome(ok) ==
    IF pc[Main] = "et_start" THEN "missing"
    ELSE IF pc[Main] = "et_chk2" THEN (IF ok THEN "unbuilt" ELSE "shutdown")
    ELSE IF pc[Main] \in {"et_chk1", "et_chk3", "et_chk4"} THEN "shutdown"
    ELSE IF site[Main] = "aprobe" THEN "hit"
    ELSE IF ~ok THEN "failed"
    ELSE IF site[Main] = "abuild" THEN "cmd1"
    ELSE IF site[Main] = "abuild2" THEN "cmd2"
    ELSE "cmd3"

\* the record of the call that ends, kept for the calls CacheSpec makes: the
\* name, how the call ended, whether it returned a path, has_audio, the
\* desired parameters, and the manifest entry and the built copy it found
Ended(how, ok) ==
    IF et.cont # "cache" THEN prev
    ELSE [name |-> et.name, how |-> how, ok |-> ok, audio |-> et.audio,
          silent |-> DesiredSilent(et.name), audnorm |-> DesiredAudnorm(et.name),
          was |-> manifest[et.name], built |-> et.name \in dst]

AfterAppend(ok) ==
    /\ prev' = Ended(EtOutcome(ok), ok)
    /\ lines' = IF ok /\ et.cont # "cache" THEN Append(lines, AssetLine(et.name)) ELSE lines
    /\ IF et.cont = "intro"
       THEN /\ IF ok THEN CallEt(StaticName, "intro_static") ELSE Goto("submit")
            /\ UNCHANGED <<recent, k>>
       ELSE IF et.cont = "intro_static" THEN Goto("submit") /\ UNCHANGED <<recent, k>>
       ELSE IF et.cont = "clip_static" THEN Goto("trans") /\ UNCHANGED <<recent, k>>
       ELSE IF et.cont = "trans"
       THEN IF ok
            THEN /\ recent' = Append(recent, et.name)
                 /\ CallEt(StaticName, "trans_static")
                 /\ UNCHANGED k
            ELSE NextClip /\ UNCHANGED recent
       ELSE IF et.cont = "trans_static" THEN NextClip /\ UNCHANGED recent
       ELSE IF et.cont = "cache" THEN Goto("cache") /\ UNCHANGED <<recent, k>>
       ELSE Goto("write") /\ UNCHANGED <<recent, k>>

\* FileNotFoundError of an asset encode leaves _ensure_transcoded: it is
\* swallowed by the try around the random transition, and leaves
\* write_concat_file everywhere else
EtRaise ==
    /\ IF et.cont \in {"trans", "trans_static"}
       THEN NextClip
       ELSE Goto("raised") /\ UNCHANGED k
    /\ prev' = Ended("raised", FALSE)
    /\ UNCHANGED <<lines, recent>>

\* write_concat_file starts: lines = []; the intro, if one is configured
MainStart ==
    /\ pc[Main] = "start"
    /\ IF cfg.intro THEN CallEt("intro", "intro") ELSE Goto("submit")
    /\ UNCHANGED <<cfg, supVars, proc, site, ret, att, clip, callVars, poolVars,
                   lines, recent, k, dst, manifest, concat, sumIdx, prev, rt, cc, un, fz, sb>>

\* the source file is looked up; missing gives None; else the audio probe runs
EtStart ==
    /\ pc[Main] = "et_start"
    /\ IF et.name \notin cfg.src
       THEN AfterAppend(FALSE) /\ UNCHANGED site
       ELSE /\ site' = [site EXCEPT ![Main] = "aprobe"]
            /\ pc' = [pc EXCEPT ![Main] = "rp_popen"]
            /\ UNCHANGED <<lines, recent, k, et, prev>>
    /\ UNCHANGED <<cfg, supVars, proc, ret, att, clip, callVars, poolVars, dst,
                   manifest, concat, sumIdx, rt, cc, un, fz, sb>>

\* has_audio = rc_probe == 0 (True when the probe raised); then the reuse test
EtProbed ==
    /\ pc[Main] = "rp_ret" /\ site[Main] = "aprobe"
    /\ IF CacheHit(et.name)
       THEN AfterAppend(TRUE)
       ELSE /\ et' = [et EXCEPT !.audio = ret[Main] \in {"rc0", "fnf"}]
            /\ pc' = [pc EXCEPT ![Main] = "et_chk1"]
            /\ UNCHANGED <<lines, recent, k, prev>>
    /\ UNCHANGED <<cfg, supVars, proc, site, ret, att, clip, callVars, poolVars,
                   dst, manifest, concat, sumIdx, rt, cc, un, fz, sb>>

\* if SHUTDOWN_EVENT.is_set(): return None -- before the encode at `from`
EtCheck(from, st) ==
    /\ pc[Main] = from
    /\ IF SHUTDOWN_EVENT
       THEN AfterAppend(FALSE) /\ UNCHANGED site
       ELSE /\ site' = [site EXCEPT ![Main] = st]
            /\ pc' = [pc EXCEPT ![Main] = "rp_popen"]
            /\ UNCHANGED <<lines, recent, k, et, prev>>
    /\ UNCHANGED <<cfg, supVars, proc, ret, att, clip, callVars, poolVars, dst,
                   manifest, concat, sumIdx, rt, cc, un, fz, sb>>

EtCheck1 == EtCheck("et_chk1", "abuild")
EtCheck3 == EtCheck("et_chk3", "abuild2")
EtCheck4 == EtCheck("et_chk4", "abuild3")

\* the manifest entry written after a build, and the path returned
EtRecord(entry) ==
    /\ manifest' = [manifest EXCEPT ![et.name] = entry]
    /\ AfterAppend(TRUE)

\* after the first encode: rc == 0 records the desired parameters
EtBuilt ==
    /\ pc[Main] = "rp_ret" /\ site[Main] = "abuild"
    /\ IF ret[Main] = "fnf" THEN EtRaise /\ UNCHANGED <<dst, manifest>>
       ELSE IF ret[Main] = "rc0"
       THEN /\ dst' = dst \cup {et.name}
            /\ EtRecord(<<DesiredSilent(et.name), DesiredAudnorm(et.name)>>)
       ELSE /\ pc' = [pc EXCEPT ![Main] = "et_chk2"]
            /\ UNCHANGED <<lines, recent, k, et, dst, manifest, prev>>
    /\ UNCHANGED <<cfg, supVars, proc, site, ret, att, clip, callVars, poolVars,
                   concat, sumIdx, rt, cc, un, fz, sb>>

\* rc != 0: if SHUTDOWN_EVENT.is_set(): return None; the fallback ladder only
\* if (not force_silent_audio) and _aud_norm; otherwise control reaches the
\* manifest write and the path is returned
EtCheck2 ==
    /\ pc[Main] = "et_chk2"
    /\ IF SHUTDOWN_EVENT THEN AfterAppend(FALSE) /\ UNCHANGED manifest
       ELSE IF ~DesiredSilent(et.name) /\ cfg.audNorm
       THEN /\ pc' = [pc EXCEPT ![Main] = "et_chk3"]
            /\ UNCHANGED <<lines, recent, k, et, manifest, prev>>
       ELSE EtRecord(<<DesiredSilent(et.name), DesiredAudnorm(et.name)>>)
    /\ UNCHANGED <<cfg, supVars, proc, site, ret, att, clip, callVars, poolVars,
                   dst, concat, sumIdx, rt, cc, un, fz, sb>>

\* after the encode without loudnorm: rc2 == 0 reaches the same manifest write
EtBuilt2 ==
    /\ pc[Main] = "rp_ret" /\ site[Main] = "abuild2"
    /\ IF ret[Main] = "fnf" THEN EtRaise /\ UNCHANGED <<dst, manifest>>
       ELSE IF ret[Main] = "rc0"
       THEN /\ dst' = dst \cup {et.name}
            /\ EtRecord(<<DesiredSilent(et.name), DesiredAudnorm(et.name)>>)
       ELSE /\ pc' = [pc EXCEPT ![Main] = "et_chk4"]
            /\ UNCHANGED <<lines, recent, k, et, dst, manifest, prev>>
    /\ UNCHANGED <<cfg, supVars, proc, site, ret, att, clip, callVars, poolVars,
                   concat, sumIdx, rt, cc, un, fz, sb>>

\* after the encode with synthesized silence: rc3 != 0 gives None
EtBuilt3 ==
    /\ pc[Main] = "rp_ret" /\ site[Main] = "abuild3"
    /\ IF ret[Main] = "fnf" THEN EtRaise /\ UNCHANGED <<dst, manifest>>
       ELSE IF ret[Main] = "rc0"
       THEN /\ dst' = dst \cup {et.name}
            /\ EtRecord(<<TRUE, FALSE>>)
       ELSE AfterAppend(FALSE) /\ UNCHANGED <<dst, manifest>>
    /\ UNCHANGED <<cfg, supVars, proc, site, ret, att, clip, callVars, poolVars,
                   concat, sumIdx, rt, cc, un, fz, sb>>

\* ------------------------------------------------------------ sequencing
\* write_concat_file around the pool, then stage_two.

\* the futures are submitted: one task per clip, in order
MainSubmit ==
    /\ pc[Main] = "submit"
    /\ queue' = [i \in 1..NumClips |-> i]
    /\ pc' = [pc EXCEPT ![Main] = "pool"]
    /\ UNCHANGED <<cfg, supVars, proc, site, ret, att, clip, callVars, fut,
                   results, files, seqVars, rt, cc, un, fz, sb>>

\* for fut in as_completed(futs): results[idx] = fut.result(), or
\* (compilation[idx], False) when the future holds an exception
MainCollectInCompletionOrder(c) ==
    /\ pc[Main] = "pool"
    /\ fut[c] \in {"ok", "fail", "exc", "fnf"} /\ results[c] = "none"
    /\ LET idx == CHOOSE i \in Clips :
                      results[i] = "none" /\ \A j \in Clips : results[j] = "none" => i <= j
       IN results' = [results EXCEPT ![idx] = IF fut[c] = "ok" THEN "ok" ELSE "fail"]
    /\ UNCHANGED <<cfg, supVars, thrVars, callVars, queue, fut, files, seqVars, rt, cc, un, fz, sb>>

MainCollectPropagates(c) ==
    /\ pc[Main] = "pool"
    /\ fut[c] \in {"ok", "fail", "exc", "fnf"} /\ results[c] = "none"
    /\ IF fut[c] \in {"exc", "fnf"}
       THEN pc' = [pc EXCEPT ![Main] = "raised"] /\ UNCHANGED results
       ELSE /\ results' = [results EXCEPT ![c] = fut[c]]
            /\ UNCHANGED pc
    /\ UNCHANGED <<cfg, supVars, proc, site, ret, att, clip, callVars, queue, fut,
                   files, seqVars, rt, cc, un, fz, sb>>

MainCollect(c) ==
    /\ pc[Main] = "pool"
    /\ fut[c] \in {"ok", "fail", "exc", "fnf"} /\ results[c] = "none"
    /\ results' = [results EXCEPT ![c] = IF fut[c] = "ok" THEN "ok" ELSE "fail"]
    /\ UNCHANGED <<cfg, supVars, thrVars, callVars, queue, fut, files, seqVars, rt, cc, un, fz, sb>>

\* the executor is left; the sequencing loop starts
MainPoolDone ==
    /\ pc[Main] = "pool"
    /\ \A c \in Clips : results[c] # "none"
    /\ k' = 1
    /\ pc' = [pc EXCEPT ![Main] = "seq"]
    /\ UNCHANGED <<cfg, supVars, proc, site, ret, att, clip, callVars, poolVars,
                   lines, recent, et, dst, manifest, concat, sumIdx, prev, rt, cc, un, fz, sb>>

\* for clip, ok in results: a failed clip is skipped or ends the loop; a good
\* one is appended and the spacer is requested
MainSeqStopsAtFailure ==
    /\ pc[Main] = "seq"
    /\ IF k > NumClips \/ results[k] # "ok"
       THEN Goto("outro_top") /\ UNCHANGED <<lines, k>>
       ELSE /\ lines' = Append(lines, ClipLine(k))
            /\ CallEt(StaticName, "clip_static")
            /\ UNCHANGED k
    /\ UNCHANGED <<cfg, supVars, proc, site, ret, att, clip, callVars, poolVars,
                   recent, dst, manifest, concat, sumIdx, prev, rt, cc, un, fz, sb>>

MainSeq ==
    /\ pc[Main] = "seq"
    /\ IF k > NumClips
       THEN Goto("outro_top") /\ UNCHANGED <<lines, k>>
       ELSE IF results[k] # "ok"
       THEN IF cfg.skipBad
            THEN k' = k + 1 /\ UNCHANGED <<pc, et, lines>>
            ELSE Goto("outro_top") /\ UNCHANGED <<lines, k>>
       ELSE /\ lines' = Append(lines, ClipLine(k))
            /\ CallEt(StaticName, "clip_static")
            /\ UNCHANGED k
    /\ UNCHANGED <<cfg, supVars, proc, site, ret, att, clip, callVars, poolVars,
                   recent, dst, manifest, concat, sumIdx, prev, rt, cc, un, fz, sb>>

\* a window that forgets every pick
RecentWindowEmpty == {}

\* the last `cooldown` picks
RecentWindow ==
    IF cfg.cooldown = 0 THEN {}
    ELSE {recent[j] : j \in {j \in 1..Len(recent) : j > Len(recent) - cfg.cooldown}}

\* _weighted_transition_choice: the pool after the cooldown (the whole list
\* when the cooldown empties it), then a weighted draw: an asset of weight 0
\* is drawn only when no asset of the pool has a positive weight
TransitionPool ==
    LET all == Range(cfg.transitions)
        cooled == all \ RecentWindow
    IN IF cfg.cooldown # 0 /\ recent # <<>> /\ cooled # {} THEN cooled ELSE all

TransitionChoices ==
    LET positive == TransitionPool \ cfg.zeroWeight
    IN IF positive # {} THEN positive ELSE TransitionPool

\* after the spacer of a clip: with probability transition_probability a
\* transition is drawn and requested
MainTrans ==
    /\ pc[Main] = "trans"
    /\ IF ~cfg.noRand /\ cfg.transitions # <<>>
       THEN \/ NextClip
            \/ \E t \in TransitionChoices : CallEt(t, "trans") /\ UNCHANGED k
       ELSE NextClip
    /\ UNCHANGED <<cfg, supVars, proc, site, ret, att, clip, callVars, poolVars,
                   lines, recent, dst, manifest, concat, sumIdx, prev, rt, cc, un, fz, sb>>

\* the outro, if one is configured
MainOutro ==
    /\ pc[Main] = "outro_top"
    /\ IF cfg.outro THEN CallEt("outro", "outro") ELSE Goto("write")
    /\ UNCHANGED <<cfg, supVars, proc, site, ret, att, clip, callVars, poolVars,
                   lines, recent, k, dst, manifest, concat, sumIdx, prev, rt, cc, un, fz, sb>>

\* the concat script is written; write_concat_file and stage_one return and
\* stage_two starts with _sum_concat_duration
MainWrite ==
    /\ pc[Main] = "write"
    /\ concat' = [written |-> TRUE, lines |-> lines]
    /\ sumIdx' = 1
    /\ pc' = [pc EXCEPT ![Main] = "s2_sum"]
    /\ UNCHANGED <<cfg, supVars, proc, site, ret, att, clip, callVars, poolVars,
                   lines, recent, k, et, dst, manifest, prev, rt, cc, un, fz, sb>>

\* _sum_concat_duration: one duration probe per line of the script; then the
\* concat encode is started through the runner
MainSum ==
    /\ pc[Main] = "s2_sum"
    /\ IF sumIdx <= Len(concat.lines)
       THEN /\ site' = [site EXCEPT ![Main] = "durprobe"]
            /\ pc' = [pc EXCEPT ![Main] = "dp_spawn"]
       ELSE /\ site' = [site EXCEPT ![Main] = "concat"]
            /\ pc' = [pc EXCEPT ![Main] = "rp_popen"]
    /\ UNCHANGED <<cfg, supVars, proc, ret, att, clip, callVars, poolVars,
                   seqVars, rt, cc, un, fz, sb>>

MainSumProbed ==
    /\ pc[Main] = "dp_ret"
    /\ sumIdx' = sumIdx + 1
    /\ pc' = [pc EXCEPT ![Main] = "s2_sum"]
    /\ UNCHANGED <<cfg, supVars, proc, site, ret, att, clip, callVars, poolVars,
                   lines, recent, k, et, dst, manifest, concat, prev, rt, cc, un, fz, sb>>

\* stage_two after the concat encode: a failure is logged; FileNotFoundError
\* leaves stage_two
MainConcatRet ==
    /\ pc[Main] = "rp_ret" /\ site[Main] = "concat"
    /\ pc' = [pc EXCEPT ![Main] = IF ret[Main] = "fnf" THEN "raised" ELSE "done"]
    /\ UNCHANGED <<cfg, supVars, proc, site, ret, att, clip, callVars, poolVars,
                   seqVars, rt, cc, un, fz, sb>>

\* ------------------------------------------------- callers of the runner
\* Any thread may call run_proc_cancellable (download_clip, process_clip,
\* _ensure_transcoded, stage_two) at any time: the clients of SupSpec do so
\* in every order.
ClientRun(t) ==
    /\ pc[t] = "client"
    /\ site' = [site EXCEPT ![t] = "norm"]
    /\ pc' = [pc EXCEPT ![t] = "rp_popen"]
    /\ UNCHANGED <<cfg, supVars, proc, ret, att, clip, callVars, poolVars, seqVars, rt, cc, un, fz, sb>>

ClientDone(t) ==
    /\ pc[t] = "rp_ret"
    /\ pc' = [pc EXCEPT ![t] = "client"]
    /\ site' = [site EXCEPT ![t] = ""]
    /\ ret' = [ret EXCEPT ![t] = ""]
    /\ UNCHANGED <<cfg, supVars, proc, att, clip, callVars, poolVars, seqVars, rt, cc, un, fz, sb>>

\* ---------------------------------------------------- _retry on its own
\* rt is one call _retry(fn, attempts): fn is any callable with a tri-state
\* result; rcs lists the results of its invocations so far.
RetryLoop ==
    /\ rt.pc = "top"
    /\ rt' = IF RetryExhausted(rt.i, rt.attempts)
             THEN [rt EXCEPT !.pc = "ret", !.res = RetryFinal(rt.last)]
             ELSE IF RetryAborts(SHUTDOWN_EVENT)
             THEN [rt EXCEPT !.pc = "ret", !.res = 1]
             ELSE [rt EXCEPT !.pc = "call", !.calls = @ + 1]
    /\ UNCHANGED <<cfg, supVars, thrVars, callVars, poolVars, seqVars, cc, un, fz, sb>>

\* rc = fn(); return it when it stops the loop, else last = rc and sleep
RetryCall ==
    /\ rt.pc = "call"
    /\ \E rc \in {0, 1, 2} :
           rt' = IF RetryStops(rc)
                 THEN [rt EXCEPT !.pc = "ret", !.res = rc, !.rcs = Append(@, rc)]
                 ELSE [rt EXCEPT !.pc = "top", !.i = @ + 1, !.last = rc,
                                 !.rcs = Append(@, rc)]
    /\ UNCHANGED <<cfg, supVars, thrVars, callVars, poolVars, seqVars, cc, un, fz, sb>>

NoRetry == [pc |-> "none", attempts |-> 0, i |-> 0, last |-> None, calls |-> 0,
            res |-> None, rcs |-> <<>>]

\* -------------------------------------------- create_compilations_from
\* no call of ensure_unique_names or finalize_outputs is modelled
NoCall == [pc |-> "none"]

\* create_compilations_from(clips) with the module's amountOfClips,
\* amountOfCompilations and reactionThreshold; a row is [id, views].
NoComp == [pc |-> "none", clips |-> <<>>, amountOfClips |-> 1,
           amountOfCompilations |-> 0, reactionThreshold |-> 0, out |-> <<>>]

Min(a, b) == IF a <= b THEN a ELSE b

\* eligible = [c for c in clips if c[4] >= reactionThreshold]
Eligible(clips, threshold) ==
    SelectSeq(clips, LAMBDA c : c.views >= threshold)

\* random.shuffle(eligible): the orders it can leave the list in
Shuffles(e) == {[i \in 1..Len(e) |-> e[f[i]]] : f \in Perms(1..Len(e))}

\* a split that drops a last compilation shorter than amountOfClips
ChunksFullOnly(e, n, m) ==
    [i \in 1..Min(m, Len(e) \div n) |-> SubSeq(e, (i - 1) * n + 1, i * n)]

\* while eligible and len(compilations) < amountOfCompilations:
\*     compilations.append(eligible[:amountOfClips])
\*     eligible = eligible[amountOfClips:]
RECURSIVE Chunks(_, _, _)
Chunks(e, n, m) ==
    IF e = <<>> \/ m <= 0 THEN <<>>
    ELSE <<SubSeq(e, 1, Min(n, Len(e)))>>
             \o Chunks(SubSeq(e, Min(n, Len(e)) + 1, Len(e)), n, m - 1)

CreateCompilations ==
    /\ cc.pc = "call"
    /\ \E e \in Shuffles(Eligible(cc.clips, cc.reactionThreshold)) :
           cc' = [cc EXCEPT !.pc = "ret",
                            !.out = Chunks(e, cc.amountOfClips, cc.amountOfCompilations)]
    /\ UNCHANGED <<cfg, supVars, thrVars, callVars, poolVars, seqVars, rt, un, fz, sb>>

AssetNames == {"intro", "static", "outro", "t1", "t2"}

\* write_concat_file calls _ensure_transcoded for an asset name
CacheNames == {"static", "t2"}

CacheCall ==
    /\ pc[Main] = "cache"
    /\ \E name \in CacheNames : CallEt(name, "cache")
    /\ UNCHANGED <<cfg, supVars, proc, site, ret, att, clip, callVars, poolVars,
                   lines, recent, k, dst, manifest, concat, sumIdx, prev, rt, cc, un, fz, sb>>

\* a later write_concat_file starts, with the settings of its run: the
\* manifest is read again from _manifest.json, and is empty when the file
\* cannot be read
NewRun ==
    /\ pc[Main] = "cache"
    /\ \E a \in BOOLEAN, s \in BOOLEAN, r \in BOOLEAN :
           cfg' = [cfg EXCEPT !.audNorm = a, !.silenceStatic = s, !.rebuildTrans = r]
    /\ \/ UNCHANGED manifest
       \/ manifest' = [n \in AssetNames |-> NoEntry]
    /\ UNCHANGED <<supVars, thrVars, callVars, poolVars, lines, recent, k, et,
                   dst, concat, sumIdx, prev, rt, cc, un, fz, sb>>

\* ------------------------------------------------------------------ naming
\* clippy/naming.py. A file name is [stem, up, sfx]: the stem, whether it is
\* written in upper case, and the numbers appended before the extension
\* ("a_1_2.mp4" is stem "a" with sfx <<1, 2>>).

\* name.lower()
Lower(name) == [name EXCEPT !.up = FALSE]

\* root, ext = os.path.splitext(name); f"{root}_{k}{ext}"
Suffixed(name, n) == [name EXCEPT !.sfx = Append(@, n)]

\* a suffix search that stops at k = 1
FirstFreeIsOne(name, used) == 1

\* k = 1; while True: ... k += 1 -- the first k whose candidate is not used
FirstFree(name, used) ==
    CHOOSE n \in 1..(Cardinality(used) + 1) :
        /\ Lower(Suffixed(name, n)) \notin used
        /\ \A j \in 1..(n - 1) : Lower(Suffixed(name, j)) \in used

\* the loop over base_names: `used` holds the lower-case names of the
\* directory and of the names chosen so far
RECURSIVE UniqueFrom(_, _, _)
UniqueFrom(base, used, result) ==
    IF base = <<>> THEN result
    ELSE LET name == Head(base)
             pick == IF Lower(name) \notin used THEN name
                     ELSE Suffixed(name, FirstFree(name, used))
         IN UniqueFrom(Tail(base), used \cup {Lower(pick)}, Append(result, pick))

EnsureUniqueNames ==
    /\ un.pc = "call"
    /\ un' = [un EXCEPT
                 !.pc = "ret",
                 !.result = IF un.overwrite THEN un.base_names
                            ELSE UniqueFrom(un.base_names,
                                            {Lower(f) : f \in un.out_dir}, <<>>)]
    /\ UNCHANGED <<cfg, supVars, thrVars, callVars, poolVars, seqVars, rt, cc, fz, sb>>

\* finalize_outputs. fz holds the arguments, the cache and the output
\* directory, the loop index, the indexes found missing and whether the move
\* phase raised. A cache entry is a compiled output [kind "complete", idx,
\* today] (today: named with today's date) or another entry [kind, name].

\* entry.strip().lower(), for the names of the cache entries of FinalizeSpec
EntryKey(e) ==
    IF e.kind = "complete" THEN "complete"
    ELSE IF e.name = "_TRANS" THEN "_trans" ELSE e.name

\* one iteration with a destination that is never suffixed
FinalizeMoveKeepsName ==
    /\ fz.pc = "move"
    /\ LET i == fz.i
           name == fz.final_names[i]
           today == [kind |-> "complete", idx |-> i, today |-> TRUE]
           srcs == IF today \in fz.cache THEN {today}
                   ELSE {e \in fz.cache : e.kind = "complete" /\ e.idx = i}
           dest == name
           next == IF i = Len(fz.final_names) THEN "clean" ELSE "move"
       IN IF srcs = {}
          THEN fz' = [fz EXCEPT !.missing = @ \cup {i}, !.i = i + 1, !.pc = next]
          ELSE \/ \E src \in srcs :
                      fz' = [fz EXCEPT !.cache = @ \ {src},
                                       !.output = @ \cup {dest},
                                       !.final_names[i] = dest,
                                       !.moved = Append(@, [i |-> i, dest |-> dest]),
                                       !.i = i + 1, !.pc = next]
               \/ fz' = [fz EXCEPT !.raised = TRUE, !.pc = "ret"]
    /\ UNCHANGED <<cfg, supVars, thrVars, callVars, poolVars, seqVars, rt, cc, un, sb>>

\* one iteration that leaves the loop when the output is missing
FinalizeMoveStopsAtMissing ==
    /\ fz.pc = "move"
    /\ LET i == fz.i
           name == fz.final_names[i]
           today == [kind |-> "complete", idx |-> i, today |-> TRUE]
           srcs == IF today \in fz.cache THEN {today}
                   ELSE {e \in fz.cache : e.kind = "complete" /\ e.idx = i}
           dest == IF ~fz.overwrite_output /\ name \in fz.output
                   THEN Suffixed(name,
                            CHOOSE n \in 1..(Cardinality(fz.output) + 1) :
                                /\ Suffixed(name, n) \notin fz.output
                                /\ \A j \in 1..(n - 1) : Suffixed(name, j) \in fz.output)
                   ELSE name
           next == IF i = Len(fz.final_names) THEN "clean" ELSE "move"
       IN IF srcs = {}
          THEN fz' = [fz EXCEPT !.missing = @ \cup {i}, !.pc = "ret"]
          ELSE \/ \E src \in srcs :
                      fz' = [fz EXCEPT !.cache = @ \ {src},
                                       !.output = @ \cup {dest},
                                       !.final_names[i] = dest,
                                       !.moved = Append(@, [i |-> i, dest |-> dest]),
                                       !.i = i + 1, !.pc = next]
               \/ fz' = [fz EXCEPT !.raised = TRUE, !.pc = "ret"]
    /\ UNCHANGED <<cfg, supVars, thrVars, callVars, poolVars, seqVars, rt, cc, un, sb>>

\* one iteration of the loop over range(compilation_count): the output of
\* today, else any complete_*_{i} file; its destination, suffixed when it
\* exists and overwrite is off; shutil.move, which may raise (the except
\* clause then returns [])
FinalizeMove ==
    /\ fz.pc = "move"
    /\ LET i == fz.i
           name == fz.final_names[i]
           today == [kind |-> "complete", idx |-> i, today |-> TRUE]
           srcs == IF today \in fz.cache THEN {today}
                   ELSE {e \in fz.cache : e.kind = "complete" /\ e.idx = i}
           dest == IF ~fz.overwrite_output /\ name \in fz.output
                   THEN Suffixed(name,
                            CHOOSE n \in 1..(Cardinality(fz.output) + 1) :
                                /\ Suffixed(name, n) \notin fz.output
                                /\ \A j \in 1..(n - 1) : Suffixed(name, j) \in fz.output)
                   ELSE name
           next == IF i = Len(fz.final_names) THEN "clean" ELSE "move"
       IN IF srcs = {}
          THEN fz' = [fz EXCEPT !.missing = @ \cup {i}, !.i = i + 1, !.pc = next]
          ELSE \/ \E src \in srcs :
                      fz' = [fz EXCEPT !.cache = @ \ {src},
                                       !.output = @ \cup {dest},
                                       !.final_names[i] = dest,
                                       !.moved = Append(@, [i |-> i, dest |-> dest]),
                                       !.i = i + 1, !.pc = next]
               \/ fz' = [fz EXCEPT !.raised = TRUE, !.pc = "ret"]
    /\ UNCHANGED <<cfg, supVars, thrVars, callVars, poolVars, seqVars, rt, cc, un, sb>>

\* a cleanup in which keep_cache wins over purge_cache
FinalizeCleanKeepWins ==
    /\ fz.pc = "clean"
    /\ fz' = [fz EXCEPT
                 !.pc = "ret",
                 !.cache = IF fz.keep_cache THEN @
                           ELSE {e \in @ : ~fz.purge_cache /\ EntryKey(e) \in fz.preserve}]
    /\ UNCHANGED <<cfg, supVars, thrVars, callVars, poolVars, seqVars, rt, cc, un, sb>>

\* after the loop: the cache is left alone when keep_cache and not
\* purge_cache; else every entry is removed, but the preserved ones when
\* purge_cache is off
FinalizeClean ==
    /\ fz.pc = "clean"
    /\ fz' = [fz EXCEPT
                 !.pc = "ret",
                 !.cache = IF fz.keep_cache /\ ~fz.purge_cache THEN @
                           ELSE {e \in @ : ~fz.purge_cache /\ EntryKey(e) \in fz.preserve}]
    /\ UNCHANGED <<cfg, supVars, thrVars, callVars, poolVars, seqVars, rt, cc, un, sb>>

\* ------------------------------------------------- status line of a clip
\* _prep(clip, pos) with its _update_line calls, and the reader threads of
\* the encodes it runs. sb.log is what was written to the line of the
\* position, in order; "Normalizing %" and "Overlay %" are the progress
\* texts. sb.rd is the reader of the encode in progress ("loop": at its loop
\* test, "cb": it has read a progress line and is about to call progress_cb);
\* sb.stale counts, per stage, the readers that were at "cb" when the join
\* of their runner timed out.

\* _prep up to the process stage: "Avatar downloading", the shutdown test,
\* download_avatar (which may raise), "Downloading clip", then d_rc =
\* _retry(download_clip): 2 with the final file, else 0 or 1, and 1 when
\* shutdown was seen; "FAILED (download)" for 1, the second shutdown test,
\* "Normalizing"
PrepDownload ==
    /\ sb.pc \in {"prep", "dl"}
    /\ IF sb.pc = "prep"
       THEN LET shown == [sb EXCEPT !.log = Append(@, "Avatar downloading")]
            IN IF SHUTDOWN_EVENT THEN sb' = [shown EXCEPT !.pc = "ret"]
               ELSE \/ sb' = [shown EXCEPT !.pc = "ret"]
                    \/ sb' = [shown EXCEPT !.pc = "dl",
                                           !.log = Append(@, "Downloading clip")]
       ELSE \E d_rc \in (IF sb.final THEN {2} ELSE {0, 1})
                            \cup (IF SHUTDOWN_EVENT THEN {1} ELSE {}) :
                sb' = IF d_rc = 1
                      THEN [sb EXCEPT !.pc = "ret", !.log = Append(@, "FAILED (download)")]
                      ELSE IF SHUTDOWN_EVENT THEN [sb EXCEPT !.pc = "ret"]
                      ELSE [sb EXCEPT !.pc = "retry", !.clipfile = (d_rc = 0),
                                      !.log = Append(@, "Normalizing")]
    /\ UNCHANGED <<cfg, supVars, thrVars, callVars, poolVars, seqVars, rt, cc, un, fz>>

\* one turn of _retry(process_clip) up to the normalization encode: the loop
\* is over, shutdown, the final file exists (2), else _dur is probed from
\* clip.mp4 (None without the file or when the probe fails) and
\* run_proc_cancellable starts the encode and its reader
RetryProcessClip ==
    /\ sb.pc = "retry"
    /\ IF RetryExhausted(sb.i, DefaultAttempts)
       THEN sb' = [sb EXCEPT !.pc = "done", !.res = RetryFinal(sb.last)]
       ELSE IF RetryAborts(SHUTDOWN_EVENT)
       THEN sb' = [sb EXCEPT !.pc = "done", !.res = 1]
       ELSE IF sb.final /\ ~cfg.rebuild
       THEN sb' = [sb EXCEPT !.pc = "done", !.res = 2]
       ELSE \E d \in (IF sb.clipfile THEN BOOLEAN ELSE {FALSE}) :
                sb' = [sb EXCEPT !.pc = "encode", !.stage = "norm", !.dur = d,
                                 !.rd = "loop", !.nprog = 0]
    /\ UNCHANGED <<cfg, supVars, thrVars, callVars, poolVars, seqVars, rt, cc, un, fz>>

\* run_proc_cancellable returns from the encode of sb.stage (exit code 0 or
\* not; not 0 without the input file): _reader_stop.set() and
\* _t.join(timeout=0.2), which returns with the reader still at its callback
\* when that takes longer. process_clip goes on: rc != 0 returns 1 and _retry
\* loops; after the normalization clip.mp4 is removed and the overlay encode
\* starts (1 on shutdown), or without overlay os.replace makes the final file
\* (or raises, swallowed) and 0 is returned; after the overlay 0 is returned
ProcessClipEncoded ==
    /\ sb.pc = "encode"
    /\ \E ok \in (IF sb.stage = "norm" /\ ~sb.clipfile THEN {FALSE} ELSE BOOLEAN),
          replaced \in BOOLEAN :
           LET left == [sb EXCEPT !.rd = "none",
                                  !.stale[sb.stage] =
                                      IF sb.rd = "cb" /\ sb.dur THEN @ + 1 ELSE @]
               failed == [left EXCEPT !.pc = "retry", !.i = @ + 1, !.last = 1]
           IN sb' = IF ~ok THEN failed
                    ELSE IF sb.stage = "overlay"
                    THEN [left EXCEPT !.pc = "done", !.res = 0, !.final = TRUE]
                    ELSE IF ~cfg.overlay
                    THEN [left EXCEPT !.pc = "done", !.res = 0, !.clipfile = FALSE,
                                      !.final = @ \/ replaced]
                    ELSE IF SHUTDOWN_EVENT THEN [failed EXCEPT !.clipfile = FALSE]
                    ELSE [left EXCEPT !.clipfile = FALSE, !.stage = "overlay",
                                      !.rd = "loop", !.nprog = 0]
    /\ UNCHANGED <<cfg, supVars, thrVars, callVars, poolVars, seqVars, rt, cc, un, fz>>

\* if p_rc == 1: "FAILED (process)"; else "Done"; _prep returns
PrepReport ==
    /\ sb.pc = "done"
    /\ sb' = [sb EXCEPT !.pc = "ret",
                        !.log = Append(@, IF sb.res = 1 THEN "FAILED (process)" ELSE "Done")]
    /\ UNCHANGED <<cfg, supVars, thrVars, callVars, poolVars, seqVars, rt, cc, un, fz>>

\* _reader, a thread of its own: it reads a progress line of the running
\* encode; it calls progress_cb, which updates the line when _dur is known;
\* a reader left behind by its runner completes its callback
Reader ==
    /\ LET text(stage) == IF stage = "norm" THEN "Normalizing %" ELSE "Overlay %"
       IN \/ /\ sb.pc = "encode" /\ sb.rd = "loop" /\ sb.nprog < MaxProgress
             /\ sb' = [sb EXCEPT !.rd = "cb", !.nprog = @ + 1]
          \/ /\ sb.pc = "encode" /\ sb.rd = "cb"
             /\ sb' = [sb EXCEPT !.rd = "loop",
                                 !.log = IF sb.dur THEN Append(@, text(sb.stage)) ELSE @]
          \/ \E stage \in {"norm", "overlay"} :
                 /\ sb.pc \in {"encode", "retry", "done", "ret"} /\ sb.stale[stage] > 0
                 /\ sb' = [sb EXCEPT !.stale[stage] = @ - 1,
                                     !.log = Append(@, text(stage))]
    /\ UNCHANGED <<cfg, supVars, thrVars, callVars, poolVars, seqVars, rt, cc, un, fz>>

\* ------------------------------------------------------------ specification
BaseConfig ==
    [ytdl |-> TRUE, ffmpeg |-> TRUE, ffprobe |-> TRUE,
     src |-> AssetNames, intro |-> FALSE, outro |-> FALSE,
     transitions |-> <<"t1">>, zeroWeight |-> {}, cooldown |-> 1,
     noRand |-> FALSE, skipBad |-> TRUE, rebuildTrans |-> FALSE,
     audNorm |-> TRUE, silenceStatic |-> FALSE, overlay |-> TRUE,
     rebuild |-> FALSE, cached |-> {}, callers |-> 1, workers |-> 1,
     avatarOk |-> TRUE, avatars |-> {}]

\* Two configurations with a pool of MaxWorkers threads: every clip already
\* in the cache; only the last clip in the cache together with its
\* avatar.png, the downloader missing, skip_bad_clip off and the avatar
\* request answered with an error status.
AllCached == [BaseConfig EXCEPT !.cached = Clips, !.workers = MaxWorkers]

LastCached ==
    [BaseConfig EXCEPT !.cached = {NumClips}, !.ytdl = FALSE, !.skipBad = FALSE,
                       !.workers = MaxWorkers, !.avatarOk = FALSE,
                       !.avatars = {NumClips}]

\* The configurations the whole pipeline is run with: everything installed;
\* the spacer's source file missing (clips already in the cache); the
\* downloader missing; the encoder missing (clips already in the cache);
\* and the two above.
Configs ==
    {BaseConfig,
     [BaseConfig EXCEPT !.src = AssetNames \ {StaticName}, !.cached = Clips,
                        !.intro = TRUE, !.outro = TRUE],
     [BaseConfig EXCEPT !.ytdl = FALSE],
     [BaseConfig EXCEPT !.ffmpeg = FALSE, !.cached = Clips],
     AllCached, LastCached}

\* the state in which the futures of the pool are `futs` and the sequencing
\* loop is at clip k0: results holds (clip, ok) for every finished future
InitAt(c, mainPc, workerPc, futs, k0) ==
    /\ cfg = c
    /\ SHUTDOWN_EVENT = FALSE
    /\ ACTIVE_PROCS = {}
    /\ child = [p \in Pids |-> "none"]
    /\ termSent = {} /\ killSent = {}
    /\ pc = [t \in Threads |-> IF t = Main THEN mainPc
                               ELSE IF t <= c.workers THEN workerPc ELSE "none"]
    /\ proc = [t \in Threads |-> 0]
    /\ site = [t \in Threads |-> ""]
    /\ ret = [t \in Threads |-> ""]
    /\ att = [t \in Threads |-> NewRetry]
    /\ clip = [t \in Threads |-> 0]
    /\ spc = [s \in Callers |-> "idle"]
    /\ procs = [s \in Callers |-> <<>>]
    /\ todo = [s \in Callers |-> 1]
    /\ ncalls = [s \in Callers |-> 0]
    /\ queue = <<>>
    /\ fut = futs
    /\ results = [x \in Clips |-> IF futs[x] = "pending" THEN "none"
                                  ELSE IF futs[x] = "ok" THEN "ok" ELSE "fail"]
    /\ files = [x \in Clips |-> (IF x \in c.cached THEN {"final"} ELSE {})
                                    \cup (IF x \in c.avatars THEN {"avatar"} ELSE {})]
    /\ lines = <<>> /\ recent = <<>> /\ k = k0 /\ et = NoEt
    /\ dst = {} /\ manifest = [n \in AssetNames |-> NoEntry]
    /\ concat = [written |-> FALSE, lines |-> <<>>] /\ sumIdx = 0
    /\ prev = NoPrev

InitWith(c, mainPc, workerPc) ==
    InitAt(c, mainPc, workerPc, [x \in Clips |-> "pending"], 0)

Supervisor ==
    \E s \in Callers :
        \/ RequestShutdown(s) \/ TerminateSnapshot(s) \/ TerminateTerm(s)
        \/ TerminateWait(s) \/ ShutdownReturn(s)

RunnerStep(t) ==
    \/ RunnerPopen(t) \/ RunnerRegister(t) \/ RunnerCheck(t) \/ RunnerPoll(t)
    \/ RunnerInterrupt(t) \/ RunnerKill(t) \/ RunnerFinally(t)

Runner == \E t \in Threads : RunnerStep(t)

ProbeStep(t) == ProbeSpawn(t) \/ ProbeWait(t)

Probe == \E t \in Threads : ProbeStep(t)

WorkerStep(w) ==
    \/ WorkerTake(w) \/ WorkerPrepCheck(w) \/ WorkerAvatar(w) \/ WorkerDlTop(w)
    \/ WorkerDlCheck(w) \/ WorkerDlRet(w) \/ WorkerDlDone(w) \/ WorkerPrTop(w)
    \/ WorkerPrCheck(w) \/ WorkerProbed(w) \/ WorkerNormRet(w)
    \/ WorkerOvCheck(w) \/ WorkerOvRet(w) \/ WorkerPrDone(w)

Worker == \E w \in Workers : WorkerStep(w)

Pool == MainSubmit \/ (\E c \in Clips : MainCollect(c)) \/ MainPoolDone

Sequencing ==
    \/ MainStart \/ EtStart \/ EtProbed \/ EtCheck1 \/ EtBuilt \/ EtCheck2
    \/ EtCheck3 \/ EtBuilt2 \/ EtCheck4 \/ EtBuilt3 \/ MainSeq \/ MainTrans
    \/ MainOutro \/ MainWrite

StageTwo == MainSum \/ MainSumProbed \/ MainConcatRet

Children == \E p \in Pids : ChildExit(p)

Clients == \E t \in Threads : ClientRun(t) \/ ClientDone(t)

\* The whole run: stage_one (one compilation) and stage_two, the pool's
\* workers, the callers of request_shutdown and the child processes.
Init ==
    \E c \in Configs : InitWith(c, "start", "idle") /\ rt = NoRetry /\ cc = NoComp
                     /\ un = NoCall /\ fz = NoCall /\ sb = NoCall

Next ==
    \/ Supervisor \/ Runner \/ Probe \/ Worker \/ Pool \/ Sequencing \/ StageTwo
    \/ Children

Spec == Init /\ [][Next]_vars

\* The clip preparation pool of one compilation, from the submission of the
\* tasks to the end of the executor.
PoolInit ==
    /\ \E c \in {BaseConfig, [BaseConfig EXCEPT !.ytdl = FALSE],
                 [BaseConfig EXCEPT !.cached = {1}], AllCached, LastCached,
                 [BaseConfig EXCEPT !.overlay = FALSE]} :
           InitWith(c, "submit", "idle")
    /\ rt = NoRetry /\ cc = NoComp /\ un = NoCall /\ fz = NoCall /\ sb = NoCall

PoolNext == Supervisor \/ Runner \/ Probe \/ Worker \/ Pool \/ Children

PoolSpec == PoolInit /\ [][PoolNext]_vars

\* Threads are scheduled and sleeps end: every thread of the program that can
\* take a step eventually does.  Nothing makes a child process exit.
PoolFairness ==
    /\ \A t \in Threads : WF_vars(RunnerStep(t) \/ ProbeStep(t))
    /\ \A w \in Workers : WF_vars(WorkerStep(w))
    /\ WF_vars(Pool)
    /\ \A s \in Callers :
           WF_vars(TerminateSnapshot(s) \/ TerminateTerm(s) \/ TerminateWait(s)
                   \/ ShutdownReturn(s))

FairPoolSpec == PoolSpec /\ PoolFairness

\* Concurrent calls of request_shutdown while the workers call the runner.
SupInit ==
    /\ InitWith([BaseConfig EXCEPT !.callers = NumCallers], "none", "client")
    /\ rt = NoRetry /\ cc = NoComp /\ un = NoCall /\ fz = NoCall /\ sb = NoCall

SupNext == Supervisor \/ Runner \/ Clients \/ Children

SupSpec == SupInit /\ [][SupNext]_vars

\* Every thread calls the runner, with the encoder installed or missing,
\* while request_shutdown is called once.
RunnerInit ==
    /\ \E present \in BOOLEAN :
           InitWith([BaseConfig EXCEPT !.ffmpeg = present], "client", "client")
    /\ rt = NoRetry /\ cc = NoComp /\ un = NoCall /\ fz = NoCall /\ sb = NoCall

RunnerSpec == RunnerInit /\ [][SupNext]_vars

\* Threads are scheduled and sleeps end: a thread inside the runner
\* eventually takes its next step.  Nothing makes a child process exit.
RunnerFairness ==
    \A t \in Threads : WF_vars(RunnerStep(t))

FairRunnerSpec == RunnerSpec /\ RunnerFairness

\* One call of _retry with any `attempts` up to MaxAttempts, while
\* request_shutdown may be called.
RetryInit ==
    /\ InitWith([BaseConfig EXCEPT !.callers = NumCallers], "none", "none")
    /\ \E n \in 0..MaxAttempts : rt = [NoRetry EXCEPT !.pc = "top", !.attempts = n]
    /\ cc = NoComp /\ un = NoCall /\ fz = NoCall /\ sb = NoCall

RetryNext == RetryLoop \/ RetryCall \/ Supervisor

RetrySpec == RetryInit /\ [][RetryNext]_vars

\* The asset cache alone, while no shutdown is requested: calls of
\* _ensure_transcoded for the names of CacheNames (the source of "t2" is
\* missing), over runs whose settings differ.
CacheInit ==
    /\ \E a \in BOOLEAN, s \in BOOLEAN :
           InitWith([BaseConfig EXCEPT !.src = AssetNames \ {"t2"}, !.audNorm = a,
                                       !.silenceStatic = s], "cache", "none")
    /\ rt = NoRetry /\ cc = NoComp /\ un = NoCall /\ fz = NoCall /\ sb = NoCall

CacheNext ==
    \/ CacheCall \/ NewRun
    \/ EtStart \/ EtProbed \/ EtCheck1 \/ EtBuilt \/ EtCheck2 \/ EtCheck3
    \/ EtBuilt2 \/ EtCheck4 \/ EtBuilt3
    \/ RunnerPopen(Main) \/ RunnerRegister(Main) \/ RunnerCheck(Main)
    \/ RunnerPoll(Main) \/ RunnerFinally(Main)
    \/ Children

CacheSpec == CacheInit /\ [][CacheNext]_vars

\* The sequencing loop of write_concat_file after the pool, while no shutdown
\* is requested: any outcome of the clips, one or two transitions (the
\* second without source file or not), any cooldown up to MaxCooldown, with
\* or without outro.
SeqInit ==
    /\ \E futs \in [Clips -> {"ok", "exc"}], two \in BOOLEAN, src2 \in BOOLEAN,
          cd \in 0..MaxCooldown, out \in BOOLEAN :
           InitAt([BaseConfig EXCEPT
                       !.transitions = IF two THEN <<"t1", "t2">> ELSE <<"t1">>,
                       !.src = IF src2 THEN AssetNames ELSE AssetNames \ {"t2"},
                       !.cooldown = cd, !.outro = out,
                       !.cached = {x \in Clips : futs[x] = "ok"}],
                  "seq", "none", futs, 1)
    /\ rt = NoRetry /\ cc = NoComp /\ un = NoCall /\ fz = NoCall /\ sb = NoCall

SeqSpec ==
    SeqInit /\ [][\/ MainSeq \/ MainTrans \/ MainOutro \/ MainWrite
                  \/ EtStart \/ EtProbed \/ EtCheck1 \/ EtBuilt \/ EtCheck2
                  \/ EtCheck3 \/ EtBuilt2 \/ EtCheck4 \/ EtBuilt3
                  \/ RunnerPopen(Main) \/ RunnerRegister(Main)
                  \/ RunnerCheck(Main) \/ RunnerPoll(Main)
                  \/ RunnerFinally(Main) \/ Children]_vars

\* One call of ensure_unique_names: up to MaxNames base names out of "a",
\* "A", "a_1", "A_1", any directory holding some of "a", "A", "a_1", "a_2".
UniqueInit ==
    /\ InitWith(BaseConfig, "none", "none")
    /\ rt = NoRetry /\ cc = NoComp /\ fz = NoCall /\ sb = NoCall
    /\ \E len \in 0..MaxNames, ow \in BOOLEAN :
       \E base \in [1..len -> [stem : {"a"}, up : BOOLEAN, sfx : {<<>>, <<1>>}]],
          dir \in SUBSET ([stem : {"a"}, up : {FALSE}, sfx : {<<>>, <<1>>, <<2>>}]
                             \cup {[stem |-> "a", up |-> TRUE, sfx |-> <<>>]}) :
           un = [pc |-> "call", base_names |-> base, out_dir |-> dir,
                 overwrite |-> ow, result |-> <<>>]

UniqueSpec == UniqueInit /\ [][EnsureUniqueNames]_vars

\* One call of finalize_outputs for 1..MaxComps compilations: any final
\* names out of "a", "a_1", "b", "b_1", any output directory holding some of
\* "a", "a_1", "a_2", "b", per compilation no output, today's, an older one or
\* both in the cache, next to the entries "_trans", "_TRANS" and "clip1".
FinalizeInit ==
    /\ InitWith(BaseConfig, "none", "none")
    /\ rt = NoRetry /\ cc = NoComp /\ un = NoCall /\ sb = NoCall
    /\ \E count \in 1..MaxComps, ow \in BOOLEAN, keep \in BOOLEAN, purge \in BOOLEAN,
          pres \in {{}, {"_trans"}} :
       \E names \in [1..count -> [stem : {"a", "b"}, up : {FALSE}, sfx : {<<>>, <<1>>}]],
          outs \in SUBSET [kind : {"complete"}, idx : 1..count, today : BOOLEAN],
          dir \in SUBSET ([stem : {"a"}, up : {FALSE}, sfx : {<<>>, <<1>>, <<2>>}]
                             \cup {[stem |-> "b", up |-> FALSE, sfx |-> <<>>]}) :
           fz = [pc |-> "move", i |-> 1, final_names |-> names,
                 overwrite_output |-> ow, keep_cache |-> keep, purge_cache |-> purge,
                 preserve |-> pres,
                 cache |-> outs \cup [kind : {"entry"}, name : {"_trans", "_TRANS", "clip1"}],
                 output |-> dir, moved |-> <<>>, missing |-> {}, raised |-> FALSE,
                 had |-> {e.idx : e \in outs}]

FinalizeSpec == FinalizeInit /\ [][FinalizeMove \/ FinalizeClean]_vars

\* One call of _prep for one position, with overlay on or off and the final
\* file of the clip in the cache or not, while request_shutdown may be
\* called.
StatusInit ==
    /\ \E ov \in BOOLEAN : InitWith([BaseConfig EXCEPT !.overlay = ov], "none", "none")
    /\ rt = NoRetry /\ cc = NoComp /\ un = NoCall /\ fz = NoCall
    /\ \E fin \in BOOLEAN :
           sb = [pc |-> "prep", final |-> fin, clipfile |-> FALSE, i |-> 0,
                 last |-> None, res |-> None, dur |-> FALSE, stage |-> "",
                 rd |-> "none", nprog |-> 0,
                 stale |-> [stage \in {"norm", "overlay"} |-> 0],
                 log |-> <<"queued">>]

StatusSpec ==
    StatusInit /\ [][\/ PrepDownload \/ RetryProcessClip \/ ProcessClipEncoded
                     \/ PrepReport \/ Reader \/ Supervisor]_vars

\* One call of create_compilations_from with any list of up to MaxRows rows.
Rows == [id : 1..MaxRows, views : 0..MaxViews]

CompInit ==
    /\ InitWith(BaseConfig, "none", "none")
    /\ rt = NoRetry /\ un = NoCall /\ fz = NoCall /\ sb = NoCall
    /\ \E len \in 0..MaxRows, n \in 1..MaxPerComp, m \in 0..MaxComps,
          thr \in 0..MaxViews :
           \E rows \in [1..len -> Rows] :
               cc = [pc |-> "call", clips |-> rows, amountOfClips |-> n,
                     amountOfCompilations |-> m, reactionThreshold |-> thr,
                     out |-> <<>>]

CompNext == CreateCompilations

CompSpec == CompInit /\ [][CompNext]_vars

\* ------------------------------------------------------------------ claims
InRunner == {"rp_loop", "rp_poll", "rp_int", "rp_grace", "rp_fin"}

\* C1: in every concat script that write_concat_file has written, each clip
\* line is immediately followed by a line of the spacer asset, whatever the
\* outcome of the asset builds.
C1_SpacerFollowsEveryClip ==
    concat.written =>
        \A i \in 1..Len(concat.lines) :
            concat.lines[i].t = "clip" =>
                /\ i < Len(concat.lines)
                /\ concat.lines[i + 1] = AssetLine(StaticName)

\* C2: when the spacer requested right after a clip line cannot be resolved
\* or built (the request ends without a line appended), write_concat_file
\* is left with an error instead of going on to write the script.
C2_SpacerFailureSurfaces ==
    [][(et.cont = "clip_static" /\ et'.cont # "clip_static" /\ lines' = lines)
          => pc'[Main] = "raised"]_vars

\* C3: no child process is spawned in a step taken while the shutdown signal
\* is set, in any interleaving of the workers, the sequencing, stage_two and
\* request_shutdown.
C3_NoSpawnAfterShutdown ==
    [][\A p \in Pids : (child[p] # "run" /\ child'[p] = "run") => ~SHUTDOWN_EVENT]_vars

\* C4: a runner that waits on a child while the shutdown signal is set
\* eventually returns, although nothing makes the child exit on its own;
\* when it is about to return its child is not running any more, and a child
\* that was killed was sent terminate first.
C4_RunnerReturnsOnShutdown ==
    /\ [](\A t \in Threads :
             pc[t] = "rp_fin" =>
                 /\ child[proc[t]] # "run"
                 /\ (proc[t] \in killSent => proc[t] \in termSent))
    /\ \A t \in Threads :
           (SHUTDOWN_EVENT /\ pc[t] \in {"rp_loop", "rp_poll"}) ~> (pc[t] = "rp_ret")

\* reached: the runner itself terminated and killed its child, before any
\* snapshot of the registry was taken
C4_Witness ==
    \E t \in Threads :
        /\ pc[t] = "rp_fin" /\ ret[t] = "interrupted"
        /\ proc[t] \in termSent /\ proc[t] \in killSent
        /\ spc[1] = "ta_snap"

\* C5: once shutdown is requested, eventually no child process spawned by
\* the core is running, whether registered before or after the snapshot of
\* terminate_all_processes or spawned by a duration probe.
C5_AllChildrenEventuallyTerminated ==
    SHUTDOWN_EVENT ~> (\A p \in Pids : child[p] # "run")

\* C6: request_shutdown, called by several threads while children exit and
\* runners unregister: a call returns only after it went through its whole
\* snapshot (no exception cut it short) with every handle of the snapshot
\* out of the registry, and the signal is set from the first call on.
C6_RequestShutdownIdempotent ==
    \A s \in Callers :
        /\ spc[s] = "ta_ret" =>
               /\ todo[s] = Len(procs[s]) + 1
               /\ Range(procs[s]) \cap ACTIVE_PROCS = {}
        /\ (spc[s] # "idle" \/ ncalls[s] > 0) => SHUTDOWN_EVENT

\* reached: two calls return with the same handle in their snapshots
C6_Witness ==
    \E s1, s2 \in Callers :
        /\ s1 # s2
        /\ spc[s1] = "ta_ret" /\ spc[s2] = "ta_ret"
        /\ procs[s1] # <<>> /\ procs[s1] = procs[s2]

\* C7: a handle is in the registry only while the runner that spawned it is
\* executing between its registration and its finally clause; a runner that
\* has returned or raised holds no handle.
C7_RegisteredOnlyWhileRunning ==
    /\ \A p \in ACTIVE_PROCS :
           \E t \in Threads : proc[t] = p /\ pc[t] \in InRunner
    /\ \A t \in Threads : pc[t] \in {"rp_ret", "client"} => proc[t] = 0

\* reached: one runner has returned while another one's child is registered
C7_Witness ==
    \E t, u \in Threads :
        /\ pc[t] = "rp_ret" /\ ret[t] \in {"rc0", "interrupted"}
        /\ pc[u] \in InRunner /\ proc[u] \in ACTIVE_PROCS

\* C8: when the downloader or the encoder cannot be found while a clip is
\* prepared, the build of the compilation fails: no concat script is written
\* for it.
C8_MissingExecutableIsFatal ==
    ~(concat.written /\ \E c \in Clips : fut[c] = "fnf")

\* C9: _retry invokes the operation at most `attempts` times; no result but
\* the last is 0 or 2; a last result 0 or 2 is what it returns; it returns 1
\* when every result was a failure.
C9_RetryBounded ==
    /\ rt.calls <= rt.attempts
    /\ Len(rt.rcs) <= rt.calls
    /\ \A i \in 1..Len(rt.rcs) : i < Len(rt.rcs) => rt.rcs[i] \notin {0, 2}
    /\ rt.pc = "ret" =>
           /\ Len(rt.rcs) = rt.calls
           /\ IF rt.rcs # <<>> /\ rt.rcs[Len(rt.rcs)] \in {0, 2}
              THEN rt.res = rt.rcs[Len(rt.rcs)]
              ELSE rt.res = 1

\* reached: two failures, then already-satisfied at the third attempt
C9_Witness ==
    rt.pc = "ret" /\ rt.attempts = 3 /\ rt.rcs = <<1, 1, 2>> /\ rt.res = 2

\* C10: when the shutdown signal is set as _retry is about to start an
\* attempt, it returns 1 and the operation is not invoked.
C10_RetryAbortsOnShutdown ==
    [][(SHUTDOWN_EVENT /\ rt.pc = "top" /\ rt' # rt)
          => (rt'.pc = "ret" /\ rt'.res = 1 /\ rt'.calls = rt.calls)]_vars

\* reached: _retry returned 1 after one failed attempt with attempts left
C10_Witness ==
    /\ SHUTDOWN_EVENT /\ rt.pc = "ret" /\ rt.res = 1
    /\ rt.attempts = 3 /\ rt.rcs = <<1>>

\* C11: whatever the order in which the workers complete, the result list
\* has at index i the result of the clip at input position i, and the clip
\* lines of the concat script are in the order of the compilation.
C11_ResultsKeepInputOrder ==
    /\ \A c \in Clips :
           results[c] # "none" => (results[c] = "ok" <=> fut[c] = "ok")
    /\ \A i, j \in 1..Len(lines) :
           (i < j /\ lines[i].t = "clip" /\ lines[j].t = "clip")
               => lines[i].c < lines[j].c

\* reached: the last clip completed and was collected while the first one
\* is still being prepared
C11_Witness ==
    /\ pc[Main] = "pool" /\ fut[1] = "running"
    /\ results[NumClips] # "none" /\ results[1] = "none"

\* C12: an exception or a failure inside the preparation of one clip never
\* leaves the pool: the caller's thread goes on to the sequencing loop with,
\* for every clip, the result of that clip's own future, failed for the clip
\* whose preparation raised or failed and for no other.
C12_FailureContained ==
    /\ pc[Main] # "raised"
    /\ pc[Main] = "seq" =>
           \A c \in Clips : results[c] = (IF fut[c] = "ok" THEN "ok" ELSE "fail")
    /\ \A t \in Workers : pc[t] # "raised"

\* reached: the preparation of the first clip raised, the same worker then
\* prepared the second clip successfully, and the pool was left
C12_Witness ==
    /\ pc[Main] = "seq" /\ cfg.workers = 1
    /\ fut[1] = "exc" /\ results[1] = "fail" /\ results[2] = "ok"

\* the clips of the lines ls that are clip lines, in the order of ls
IsClipLine(l) == l.t = "clip"
ClipsOf(ls) ==
    LET sel == SelectSeq(ls, IsClipLine) IN [i \in 1..Len(sel) |-> sel[i].c]

\* the clips whose preparation succeeded, in the order of the compilation
IsOk(c) == results[c] = "ok"
OkClips == SelectSeq([i \in 1..NumClips |-> i], IsOk)

\* C13: with skip_bad_clip on, the clip lines of the written concat script
\* are the clips whose preparation succeeded, each once, in the order of the
\* compilation; no failed clip has a line.
C13_SkipBadKeepsGoodClips ==
    (cfg.skipBad /\ concat.written) => ClipsOf(concat.lines) = OkClips

\* reached: a script written without the failed first clip and with the
\* second clip
C13_Witness ==
    /\ cfg.skipBad /\ concat.written
    /\ results[1] = "fail" /\ ClipsOf(concat.lines) = <<2>>

\* C14: with skip_bad_clip off, once a clip of the compilation has failed no
\* concat script is written for it (the build is left with an error).
C14_FailedClipAbortsBuild ==
    (~cfg.skipBad /\ \E c \in Clips : results[c] = "fail") => ~concat.written

\* C15: the compilations create_compilations_from returns are at most
\* amountOfCompilations, each of at most amountOfClips clips, every clip with
\* at least reactionThreshold views, no clip id twice in a compilation and
\* no clip id in two compilations.
C15_CompilationsWellFormed ==
    cc.pc = "ret" =>
        /\ Len(cc.out) <= cc.amountOfCompilations
        /\ \A i \in 1..Len(cc.out) :
               /\ Len(cc.out[i]) <= cc.amountOfClips
               /\ \A a \in 1..Len(cc.out[i]) :
                      /\ cc.out[i][a].views >= cc.reactionThreshold
                      /\ \A b \in 1..Len(cc.out[i]) :
                             a # b => cc.out[i][a].id # cc.out[i][b].id
                      /\ \A j \in 1..Len(cc.out) : \A b \in 1..Len(cc.out[j]) :
                             i # j => cc.out[i][a].id # cc.out[j][b].id

\* a call made by CacheCall returns (or raises) in this step
CallEnds == et.cont = "cache" /\ et' = NoEt

\* the call in progress has the name and the desired parameters of the call
\* before it
SameAsPrev ==
    /\ prev.name = et.name
    /\ prev.silent = DesiredSilent(et.name)
    /\ prev.audnorm = DesiredAudnorm(et.name)

\* the call before ran an encode that exited 0 with the audio of the source:
\* the first command or the retry without loudnorm
BuiltByPrev == prev.how \in {"cmd1", "cmd2"}

\* the manifest entry is the one the call before recorded
EntryKept == manifest[et.name] = <<prev.silent, prev.audnorm>>

\* the call in progress is at the reuse test, which succeeds
AtCacheHit ==
    /\ pc[Main] = "rp_ret" /\ site[Main] = "aprobe" /\ et.cont = "cache"
    /\ CacheHit(et.name)

AudnormChanged ==
    /\ prev.built /\ prev.was # NoEntry
    /\ prev.was[1] = prev.silent /\ prev.was[2] # prev.audnorm

ActualEntry(p) ==
    IF p.how = "cmd3" THEN <<TRUE, FALSE>>
    ELSE IF p.how = "cmd2" THEN <<FALSE, FALSE>>
    ELSE IF p.silent \/ ~p.audio THEN <<TRUE, FALSE>>
    ELSE <<FALSE, p.audnorm>>

\* C18: when _ensure_transcoded returns a path after an encode that exited 0,
\* the manifest entry it wrote has the parameters of the command that
\* produced the file.
C18_ManifestRecordsActualEncode ==
    [][(CallEnds /\ prev'.how \in {"cmd1", "cmd2", "cmd3"})
        => manifest'[et.name] = ActualEntry(prev')]_vars

\* the encode and every fallback that applies exited non-zero: the first
\* command when silence is forced or loudnorm is off, else the third
AllEncodesFailed ==
    \/ /\ pc[Main] = "et_chk2" /\ ~SHUTDOWN_EVENT
       /\ DesiredSilent(et.name) \/ ~cfg.audNorm
    \/ /\ pc[Main] = "rp_ret" /\ site[Main] = "abuild3"
       /\ ret[Main] = "rc1"

\* C19: when the encode and every applicable fallback exited non-zero,
\* _ensure_transcoded returns None and writes no manifest entry.
C19_FailedBuildIsUnavailable ==
    [][(CallEnds /\ AllEncodesFailed) => (~prev'.ok /\ manifest' = manifest)]_vars

\* C20: a built copy is returned without an encode only if rebuild is not
\* forced and the manifest has an entry for the name whose two fields equal
\* the desired parameters.
C20_HitOnlyWithMatchingEntry ==
    [][(CallEnds /\ prev'.how = "hit")
        => /\ ~cfg.rebuildTrans /\ et.name \in dst
           /\ manifest[et.name] = <<DesiredSilent(et.name), DesiredAudnorm(et.name)>>]_vars

\* C21: when the transition list has more distinct assets than the cooldown
\* K, the transitions emitted into the script are pairwise different within
\* every K+1 consecutive ones.
C21_CooldownRespected ==
    LET emitted == SelectSeq(lines, LAMBDA l : l.t \in Range(cfg.transitions))
    IN Cardinality(Range(cfg.transitions)) > cfg.cooldown =>
           \A i \in 1..Len(emitted) : \A j \in 1..Len(emitted) :
               (i < j /\ j - i <= cfg.cooldown) => emitted[i] # emitted[j]

C21_Witness ==
    /\ cfg.cooldown = 1 /\ Cardinality(Range(cfg.transitions)) = 2
    /\ Len(SelectSeq(lines, LAMBDA l : l.t \in Range(cfg.transitions))) = 2

\* C22: in the script that is written no transition follows the last clip:
\* a line of a transition asset has a clip line somewhere after it.
C22_NoTransitionAfterLastClip ==
    concat.written =>
        \A i \in 1..Len(concat.lines) :
            concat.lines[i].t \in Range(cfg.transitions) =>
                \E j \in (i + 1)..Len(concat.lines) : IsClipLine(concat.lines[j])

\* scripts/check_sequencing.py, main, on the lines of a script: a line is a
\* clip (is_clip), the spacer (_is_static) or another asset under _trans
\* (is_trans and not _is_static). The loop of main from line idx on, then
\* the optional outro and the three final tests; the value is the exit
\* status, 0 for "Sequencing OK".
RECURSIVE WalkClips(_, _, _)
WalkClips(ls, idx, saw) ==
    LET n == Len(ls)
        isStatic(i) == i <= n /\ ls[i].t = StaticName
        isOther(i) == i <= n /\ ~IsClipLine(ls[i]) /\ ls[i].t # StaticName
        after(i, sawClip) ==
            LET e == IF isOther(i) THEN i + 1 ELSE i
            IN IF e # n + 1 THEN 5 ELSE IF ~sawClip THEN 6 ELSE 0
    IN IF ~(idx <= n /\ IsClipLine(ls[idx])) THEN after(idx, saw)
       ELSE IF ~isStatic(idx + 1) THEN 3
       ELSE IF ~isOther(idx + 2) THEN WalkClips(ls, idx + 2, TRUE)
       ELSE IF ~\E j \in (idx + 3)..n : IsClipLine(ls[j]) THEN after(idx + 2, TRUE)
       ELSE IF ~isStatic(idx + 3) THEN 4
       ELSE WalkClips(ls, idx + 4, TRUE)

CheckSequencing(ls) ==
    IF ls = <<>> THEN 1
    ELSE IF ~IsClipLine(ls[1]) /\ ls[1].t # StaticName
    THEN IF Len(ls) < 2 \/ ls[2].t # StaticName THEN 2 ELSE WalkClips(ls, 3, FALSE)
    ELSE WalkClips(ls, 1, FALSE)

\* C23: every script write_concat_file writes that has a clip is accepted by
\* scripts/check_sequencing.py.
C23_ScriptPassesSequencingCheck ==
    (concat.written /\ \E i \in 1..Len(concat.lines) : IsClipLine(concat.lines[i]))
        => CheckSequencing(concat.lines) = 0

\* C24: with overwrite off, ensure_unique_names returns as many names as it
\* was given; compared in lower case each differs from the files of the
\* directory and from the names before it; position i keeps its base name
\* when that is free, else it is the base name with the smallest suffix _k,
\* k >= 1, that is free.
C24_UniqueNames ==
    LET res == un.result
        taken(i) == {Lower(f) : f \in un.out_dir} \cup {Lower(res[j]) : j \in 1..(i - 1)}
    IN (un.pc = "ret" /\ ~un.overwrite) =>
           /\ Len(res) = Len(un.base_names)
           /\ \A i \in 1..Len(res) :
                  /\ Lower(res[i]) \notin taken(i)
                  /\ IF Lower(un.base_names[i]) \notin taken(i)
                     THEN res[i] = un.base_names[i]
                     ELSE \E n \in 1..(Cardinality(taken(i)) + 1) :
                              /\ res[i] = Suffixed(un.base_names[i], n)
                              /\ \A j \in 1..(n - 1) :
                                     Lower(Suffixed(un.base_names[i], j)) \in taken(i)

C24_Witness ==
    /\ un.pc = "ret" /\ ~un.overwrite /\ Len(un.result) = MaxNames
    /\ \E i \in 1..Len(un.result) : un.result[i] = Suffixed(un.base_names[i], 2)
    /\ \E i \in 1..Len(un.result) : un.result[i] = un.base_names[i]

\* C25: with overwrite off, the destination of every move of finalize_outputs
\* is a path that is not in the output directory at that moment, so neither
\* a file that was there before nor one moved earlier in the call is replaced.
C25_NoClobber ==
    [][(~fz.overwrite_output /\ Len(fz'.moved) > Len(fz.moved))
        => fz'.moved[Len(fz'.moved)].dest \notin fz.output]_vars

C25_Witness ==
    /\ ~fz.overwrite_output /\ Len(fz.moved) = 2
    /\ fz.moved[2].dest = Suffixed(fz.moved[1].dest, 1)

\* C26: when the move phase ends without an exception, every compilation
\* whose output was in the cache has been moved and the others are recorded
\* as missing, whatever their order.
C26_MissingOutputSkipped ==
    (fz.pc \in {"clean", "ret"} /\ ~fz.raised) =>
        \A i \in 1..Len(fz.final_names) :
            /\ i \in fz.had <=> \E j \in 1..Len(fz.moved) : fz.moved[j].i = i
            /\ i \notin fz.had <=> i \in fz.missing

C26_Witness ==
    /\ fz.pc = "clean" /\ fz.missing = {1}
    /\ fz.moved # <<>> /\ fz.moved[1].i = 2

\* C27: the cleanup of finalize_outputs removes nothing when keep is
\* requested and purge is not; removes no entry of the preserve set when
\* purge is not requested; removes every entry when purge is requested.
C27_CleanupFrame ==
    [][(fz.pc = "clean" /\ fz'.pc = "ret") =>
          /\ (fz.keep_cache /\ ~fz.purge_cache) => fz'.cache = fz.cache
          /\ ~fz.purge_cache =>
                 \A e \in fz.cache : EntryKey(e) \in fz.preserve => e \in fz'.cache
          /\ fz.purge_cache => fz'.cache = {}]_vars

C27_Witness ==
    /\ fz.pc = "ret" /\ ~fz.raised /\ fz.purge_cache /\ fz.keep_cache
    /\ fz.preserve # {} /\ fz.cache = {}

\* C30: when an expected output was missing or the move phase raised,
\* finalize_outputs removes nothing from the cache.
C30_CleanupOnlyAfterSuccess ==
    [][((fz.missing # {} \/ fz.raised) /\ fz.pc = "clean") => fz'.cache = fz.cache]_vars

\* C28: while no shutdown is requested, a worker that prepares a clip whose
\* final file exists, with rebuild off, fetches no avatar, starts no child
\* process, leaves the clip directory as it is and ends with result ok.
C28_PreparedClipUntouched ==
    [][\A w \in Workers :
          (clip[w] # 0 /\ "final" \in files[clip[w]] /\ ~cfg.rebuild
               /\ ~SHUTDOWN_EVENT /\ ~SHUTDOWN_EVENT')
          => /\ ~(pc[w] = "avatar" /\ "avatar" \notin files[clip[w]])
             /\ pc'[w] # "rp_popen"
             /\ files'[clip[w]] = files[clip[w]]
             /\ clip'[w] = 0 => fut'[clip[w]] = "ok"]_vars

\* C29: when _prep ends for a clip, the last status on the board is Done,
\* FAILED (download) or FAILED (process), and the result is ok exactly when
\* it is Done.
C29_FinalStatusMatchesResult ==
    [][\A w \in Workers :
          (clip[w] # 0 /\ clip'[w] = 0)
          => /\ LastStatus(w) \in {"Done", "FAILED (download)", "FAILED (process)"}
             /\ fut'[clip[w]] = "ok" <=> LastStatus(w) = "Done"]_vars

\* C31: once shutdown is requested while the clips of a compilation are
\* prepared, every worker eventually returns and the pool completes: the
\* caller's thread leaves the executor with no worker inside _prep.
C31_PoolCompletesAfterShutdown ==
    SHUTDOWN_EVENT ~> (pc[Main] = "seq" /\ \A w \in Workers : clip[w] = 0)

\* C32: while the clips of a compilation are prepared, at most
\* max_concurrency workers are inside _prep and the registry of active
\* processes holds at most max_concurrency handles.
C32_BoundedParallelism ==
    /\ Cardinality({w \in Workers : clip[w] # 0}) <= cfg.workers
    /\ Cardinality(ACTIVE_PROCS) <= cfg.workers

\* reached: with max_concurrency 1 the only worker has a child registered
\* while the second clip waits in the queue
C32_Witness ==
    /\ cfg.workers = 1 /\ queue # <<>>
    /\ Cardinality(ACTIVE_PROCS) = 1 /\ Cardinality({w \in Workers : clip[w] # 0}) = 1

\* C33: a child process is killed, by terminate_all_processes or by its
\* runner, only in a step that finds it alive after terminate was sent to it
\* in an earlier step.
C33_TerminateBeforeKill ==
    [][\A p \in Pids :
          (p \in killSent' /\ p \notin killSent) => (p \in termSent /\ child[p] = "run")]_vars

\* reached: terminate_all_processes has killed the first handle of its
\* snapshot while the runner of that child has not yet seen the signal
C33_Witness ==
    \E s \in Callers, t \in Threads :
        /\ spc[s] = "ta_wait" /\ todo[s] = 2 /\ procs[s][1] = proc[t]
        /\ proc[t] \in killSent /\ proc[t] \in termSent
        /\ pc[t] \in {"rp_loop", "rp_poll"}

\* C34: when process_clip has returned 0 for a clip, clip.mp4 and
\* normalized.mp4 are gone and the final file of the clip exists, with
\* overlay enabled or disabled.
C34_SuccessLeavesOnlyFinal ==
    \A w \in Workers :
        (pc[w] = "pr_done" /\ att[w].res = 0)
            => files[clip[w]] \cap {"clip", "norm", "final"} = {"final"}

\* C35: for amountOfClips >= 1 and E eligible clips,
\* create_compilations_from returns min(amountOfCompilations,
\* ceil(E / amountOfClips)) compilations, each but possibly the last of
\* exactly amountOfClips clips (the last of at least one clip), after at
\* most amountOfCompilations turns of its loop.
C35_CompilationCount ==
    LET E == Len(Eligible(cc.clips, cc.reactionThreshold))
        n == cc.amountOfClips
    IN (cc.pc = "ret" /\ n >= 1) =>
           /\ Len(cc.out) = Min(cc.amountOfCompilations, (E + n - 1) \div n)
           /\ \A i \in 1..Len(cc.out) :
                  /\ i < Len(cc.out) => Len(cc.out[i]) = n
                  /\ Len(cc.out[i]) \in 1..n

\* reached: three eligible clips split into a full compilation and a short
\* last one
C35_Witness ==
    /\ cc.pc = "ret" /\ cc.amountOfClips = 2 /\ Len(cc.out) = 2
    /\ Len(cc.out[1]) = 2 /\ Len(cc.out[2]) = 1

\* C36: when no row meets the view threshold and at least one compilation
\* is asked for, create_compilations_from returns one empty compilation (for
\* which stage_one then writes a script of intro, spacer and outro only).
C36_NoEligibleGivesEmptyCompilation ==
    (/\ cc.pc = "ret" /\ cc.amountOfCompilations >= 1
     /\ Eligible(cc.clips, cc.reactionThreshold) = <<>>)
        => cc.out = << <<>> >>

\* C37: whenever an attempt of process_clip under _retry starts the
\* normalization encode of a clip, the downloaded clip.mp4 of that clip
\* exists, also on an attempt that follows a failed overlay pass.
C37_SourcePresentAtNormalize ==
    \A w \in Workers :
        (pc[w] = "rp_popen" /\ site[w] = "norm") => "clip" \in files[clip[w]]

\* C38: within one write_concat_file call no encode is started for an
\* asset name that was already built in that call: a later request for it is
\* served from the cache.
C38_AssetEncodedOnce ==
    [][(et.name \in dst /\ pc[Main] # "rp_popen" /\ pc'[Main] = "rp_popen")
          => site'[Main] = "aprobe"]_vars

\* C39: every name of the list finalize_outputs returns (final_names, or
\* the empty list when the move phase raised) is the destination of a move of
\* this call: a compilation whose output was missing contributes no name.
C39_ReturnedNamesWereMoved ==
    LET returned == IF fz.raised THEN <<>> ELSE fz.final_names
    IN fz.pc = "ret" =>
           \A i \in 1..Len(returned) :
               \E j \in 1..Len(fz.moved) : fz.moved[j].dest = returned[i]

\* C40: the statuses written to the line of a clip position only move
\* forward through queued, downloading, normalizing, overlay, done/failed,
\* and nothing is written after Done or FAILED.
C40_StatusOnlyForward ==
    LET rank(t) == IF t = "queued" THEN 0
                   ELSE IF t \in {"Avatar downloading", "Downloading clip"} THEN 1
                   ELSE IF t \in {"Normalizing", "Normalizing %"} THEN 2
                   ELSE IF t = "Overlay %" THEN 3
                   ELSE 4
    IN \A a, b \in 1..Len(sb.log) :
           a < b => (rank(sb.log[a]) <= rank(sb.log[b]) /\ rank(sb.log[a]) # 4)

====
